---------------------------- MODULE Spec2Model ----------------------------
(***************************************************************************)
(* A model of the generation orchestration pipeline of the viewport        *)
(* uplift extensions:                                                      *)
(*   - ComfyUplift (comfy_uplift.py): the parameter store, the merge of    *)
(*     parameters and captured buffers into the job template, the safety   *)
(*     screen, and generate() with its submit / poll / fetch protocol;     *)
(*   - AbstractUpliftModel (abstract_uplift_model.py): set_parameters,     *)
(*     reset_parameters, update_viewport_buffers;                          *)
(*   - ViewportBuffersCapture (viewport_buffers_capture.py): the capture   *)
(*     run over the capture plan with its visibility mutations.            *)
(*                                                                         *)
(* Python values are tagged: a str is [str |-> <<characters>>], a float    *)
(* is [num |-> n], a base64 payload is [b64 |-> id].  Exceptions are named *)
(* by their Python class.                                                  *)
(***************************************************************************)
EXTENDS Integers, Sequences, FiniteSets, TLC

VARIABLES
    \* ---- ComfyUplift / AbstractUpliftModel
    busy,               \* self.busy
    comfy_parameters,   \* self._comfy_parameters: the loaded parameter specification
    comfy_json,         \* self._comfy_json: control id -> value of the node's input
    parameters,         \* self._parameters: name -> value
    viewport_buffers,   \* self._viewport_buffers of the model: control name -> payload
    pc,                 \* pc[c]: where caller c's generate() call stands
    frame,              \* frame[c]: the locals of caller c's call
    last,               \* the most recent return of generate(), as its caller sees it
    workflow,           \* the workflow file that load_workflow read last
    load_exc,           \* the exception the last load_workflow call raised
    cleared,            \* the last load or reset that took names off the store which
                        \* the specification had neither before nor after it
    \* ---- a direct run of ComfyUplift._get_images
    poll,               \* the locals of the run, its arguments and its outcome
    upcoming,           \* what the backend answers to the next history request
    \* ---- ViewportBuffersCapture
    stage,              \* prim path -> value of its visibility attribute
    render_vars,        \* the ordered render variables of the render product
    backdrop,           \* the variant of the last setBackdropVariant event pushed
    capture_types,      \* self.active_capture_types: the capture plan
    cap_buffers,        \* self._viewport_buffers of the capture controller
    cap_pc,             \* cap_pc[r]: where run r of capture_viewport_async stands
    cap_i,              \* cap_i[r]: index of the plan entry run r is at (1-based)
    cap_events,         \* cap_events[r]: what run r did so far, in order
    cap_hist,           \* cap_hist[r]: the stage before run r's last apply, and the
                        \* entries whose callback stored / did not store an image
    \* ---- a call of _send_image, a call of the depth decoding
    send,               \* the arguments, the locals and the messages dispatched
    decode,             \* the depth buffer and the image made of it
    screen,             \* a call of _is_safe: its text and its answer
    tasks,              \* tasks[r]: the event a handler of the setup extension was
                        \* called with and where the task it started stands
    \* ---- AIViewportWidgetExtension
    widget              \* widget[k]: self._input_window / self._output_window, the
                        \* windows made so far and the destroy tasks that wait

vars == << busy, comfy_parameters, comfy_json, parameters, viewport_buffers,
           pc, frame, last, workflow, load_exc, cleared, poll, upcoming,
           stage, render_vars, backdrop, capture_types, cap_buffers, cap_pc, cap_i,
           cap_events, cap_hist, send, decode, screen, tasks, widget >>

genVars  == << busy, comfy_parameters, comfy_json, parameters, viewport_buffers,
               pc, frame, last >>
loadVars == << workflow, load_exc, cleared >>
pollVars == << poll, upcoming >>
capVars  == << stage, render_vars, backdrop, capture_types, cap_buffers, cap_pc, cap_i,
               cap_events, cap_hist >>
auxVars  == << send, decode, screen, tasks, widget >>

-----------------------------------------------------------------------------
(* Python values *)

Str(s) == [str |-> s]
Num(n) == [num |-> n]
B64(p) == [b64 |-> p]
IsStr(v) == "str" \in DOMAIN v

EmptyDict == [k \in {} |-> 0]

\* dict.update: the entries of `more` replace and extend those of `base`.
Update(base, more) == more @@ base

-----------------------------------------------------------------------------
(* The safety screen: ComfyUplift._is_safe *)

\* The characters a word of the word list can be made of.  better_profanity
\* splits a text into words at every other character; the two quote
\* characters belong to its word characters.
Letters   == {"o", "k", "b", "d", "i"}
WordChars == Letters \cup {"'", "\""}

\* data/profanity_wordlist.txt, loaded once in __init__.
CensorWords == { <<"b", "d">> }

\* str.replace(old, " ") for a one-character old.
Replace(text, old) == [i \in 1..Len(text) |-> IF text[i] = old THEN " " ELSE text[i]]

\* The maximal runs of word characters of a text.
Words(text) ==
    { SubSeq(text, i, j) : <<i, j>> \in
        { p \in (1..Len(text)) \X (1..Len(text)) :
            /\ p[1] <= p[2]
            /\ \A n \in p[1]..p[2] : text[n] \in WordChars
            /\ (p[1] = 1 \/ text[p[1] - 1] \notin WordChars)
            /\ (p[2] = Len(text) \/ text[p[2] + 1] \notin WordChars) } }

\* profanity.contains_profanity(text): Some word of the text is on the list.
ContainsProfanity(text) == Words(text) \cap CensorWords # {}

AdjustedTextRaw(text) == text
AdjustedText(text) == Replace(Replace(Replace(Replace(text, "\""), "'"), ","), ".")

IsSafe(text) ==
    ~ (ContainsProfanity(text) \/ ContainsProfanity(AdjustedText(text)))

\* The texts a call of _is_safe is given: letters, the four characters
\* that line 239 replaces, and the space.
MaxTextLen == 4
TextChars == { "b", "d", "o", "\"", "'", ",", ".", " " }
ScreenedTexts == UNION { [ 1..n -> TextChars ] : n \in 1..MaxTextLen }

-----------------------------------------------------------------------------
(* The texts and the workflows the model ranges over *)

TextOk     == << "o", "k" >>
TextBad    == << "b", "d" >>
TextImage  == << "i" >>

Texts == { TextOk, TextBad }

PromptParam ==
    [ name |-> "prompt", control_name |-> "CAVA(text): prompt", input_name |-> "text",
      type |-> "string", default_value |-> Str(TextOk), control_id |-> "6" ]
ImageParam ==
    [ name |-> "RGB", control_name |-> "CAVA(image): RGB", input_name |-> "image",
      type |-> "image", default_value |-> Str(TextImage), control_id |-> "10",
      buffer_name |-> "LdrColor" ]
FloatParam ==
    [ name |-> "cfg", control_name |-> "CAVA(cfg): cfg", input_name |-> "cfg",
      type |-> "float", default_value |-> Num(1), control_id |-> "3" ]

\* The parameter specifications of the workflows that can be loaded; the
\* first is the default workflow.
DefaultWorkflow == << PromptParam, ImageParam >>
Workflows == { DefaultWorkflow, << PromptParam, ImageParam, FloatParam >> }

SpecNames(specs) == { specs[i].name : i \in 1..Len(specs) }
SpecOf(specs, name) == specs[CHOOSE i \in 1..Len(specs) : specs[i].name = name]

\* The workflow as loaded: every control holds its default value.
TemplateOf(specs) ==
    [ id \in { specs[i].control_id : i \in 1..Len(specs) } \ { "" } |->
        (CHOOSE p \in { specs[i] : i \in 1..Len(specs) } : p.control_id = id).default_value ]

\* AbstractUpliftModel._init_parameters on an empty store.
InitParameters(specs) ==
    [ n \in SpecNames(specs) |->
        specs[CHOOSE i \in 1..Len(specs) :
                 specs[i].name = n /\ \A j \in (i + 1)..Len(specs) : specs[j].name # n].default_value ]

\* self._parameters after reset_parameters (lines 28-29): the store is
\* emptied, then filled from the specification.
ResetStoreKeeping(params, specs) == Update(params, InitParameters(specs))
ResetStoreMissing(params, specs) ==
    [ n \in SpecNames(specs) \ DOMAIN params |-> InitParameters(specs)[n] ]
ResetStore(params, specs) == InitParameters(specs)

\* What is remembered of a load or a reset (by) that took the names off the
\* store; one that took none off leaves the record as it is.
Clearing(by, names) == IF names = { } THEN cleared ELSE [ by |-> by, names |-> names ]

\* The buffer maps update_viewport_buffers is called with.
BufferMaps == { EmptyDict, [ k \in {"CAVA(image): RGB"} |-> B64("rgb") ] }

\* The keyword arguments generate() is called with.
Overrides == { EmptyDict } \cup { [ k \in {"prompt"} |-> Str(t) ] : t \in Texts }


-----------------------------------------------------------------------------
(* load_workflow: the workflow file, the derived specification, the binding *)

\* A str that is taken apart by the code is a sequence of tokens; Join gives
\* the str itself.
RECURSIVE Join(_)
Join(tokens) == IF tokens = << >> THEN "" ELSE Head(tokens) \o Join(Tail(tokens))

\* a in b, for two strs
IsInfix(a, b) ==
    \E k \in 0..(Len(b) - Len(a)) : SubSeq(b, k + 1, k + Len(a)) = a

\* str.split(sep)
RECURSIVE Split(_, _)
Split(text, sep) ==
    IF \A i \in 1..Len(text) : text[i] # sep THEN << text >>
    ELSE LET k == CHOOSE i \in 1..Len(text) :
                     text[i] = sep /\ \A j \in 1..(i - 1) : text[j] # sep
         IN  << SubSeq(text, 1, k - 1) >> \o Split(SubSeq(text, k + 1, Len(text)), sep)

\* str.strip()
RECURSIVE Strip(_)
Strip(text) ==
    IF text = << >> THEN text
    ELSE IF Head(text) = " " THEN Strip(Tail(text))
    ELSE IF text[Len(text)] = " " THEN Strip(SubSeq(text, 1, Len(text) - 1))
    ELSE text

Title(input, name) == << "CAVA", "(", input, ")", ":", " ", name >>

\* The titles of the nodes of the workflow files.
Titles ==
    { Title("text", "prompt"), Title("image", "RGB"), Title("cfg", "cfg"),
      Title("image", "prompt"), << "prompt" >>, << "KSampler" >> }

\* The value of the input of a node, by its title and its key.
NodeValue(title, key) ==
    IF title[1] # "CAVA" THEN Num(2)
    ELSE IF title[3] = "image" THEN Str(TextImage)
    ELSE IF title[3] = "text" THEN Str(IF key = "6" THEN TextOk ELSE TextBad)
    ELSE Num(1)

\* A node of the workflow JSON: its key, value["_meta"]["title"] and the
\* value of its input.
WorkflowNode(key, title) == [ key |-> key, title |-> title, value |-> NodeValue(title, key) ]

\* An entry of a .spec file.
SpecEntry(input, name, type, default_value) ==
    [ name |-> name, control_name |-> Title(input, name), input_name |-> input,
      type |-> type, default_value |-> default_value ]

\* The workflow files: <name>.json with its nodes in file order, and
\* <name>.spec when there is one (<< >>: there is none).
DefaultFile ==
    [ nodes |-> << WorkflowNode("6", Title("text", "prompt")),
                   WorkflowNode("10", Title("image", "RGB")) >>,
      spec  |-> << >> ]

FloatFile ==
    [ nodes |-> << WorkflowNode("6", Title("text", "prompt")),
                   WorkflowNode("10", Title("image", "RGB")),
                   WorkflowNode("3", Title("cfg", "cfg")) >>,
      spec  |-> << >> ]

\* A .spec file with an entry that no node title matches.
UnboundFile ==
    [ nodes |-> DefaultFile.nodes,
      spec  |-> << SpecEntry("text", "prompt", "string", Str(TextOk)),
                   SpecEntry("image", "RGB", "image", Str(TextImage)),
                   SpecEntry("text", "style", "string", Str(TextOk)) >> ]

\* A name under which the workflow folder has no <name>.json.
NoFile == [ nodes |-> << >>, spec |-> << >>, json |-> FALSE ]

\* os.path.isfile(comfy_path) (line 86)
IsFileAlways(file) == TRUE
IsFile(file) == "json" \notin DOMAIN file

NodeKeys == << "6", "10", "3" >>

AutoFiles ==
    { [ nodes |-> [ n \in 1..Len(titles) |-> WorkflowNode(NodeKeys[n], titles[n]) ],
        spec  |-> << >> ] :
      titles \in (Titles \X Titles) \cup (Titles \X Titles \X Titles) }

SpecFiles ==
    { UnboundFile,
      [ nodes |-> << WorkflowNode("6", Title("text", "prompt")),
                     WorkflowNode("10", << "prompt" >>) >>,
        spec  |-> << SpecEntry("text", "prompt", "string", Str(TextOk)) >> ],
      [ nodes |-> DefaultFile.nodes,
        spec  |-> << SpecEntry("text", "prompt", "string", Str(TextOk)),
                     SpecEntry("text", "prompt", "string", Str(TextBad)) >> ] }

WorkflowFiles == { DefaultFile, FloatFile } \cup AutoFiles \cup SpecFiles

\* _get_params_from_workflow (lines 106-137): one entry per node whose title
\* starts with CAVA, in file order.
RECURSIVE GetParamsFromWorkflow(_, _)
GetParamsFromWorkflow(nodes, n) ==
    IF n > Len(nodes) THEN << >>
    ELSE LET title == nodes[n].title
             input == Split(Split(title, "(")[2], ")")[1]
             name  == Strip(Split(title, ":")[2])
             input_type == IF IsInfix(<< "image" >>, input) THEN "image"
                           ELSE IF IsInfix(<< "text" >>, input) THEN "string"
                           ELSE "float"
             values == [ name |-> Join(name), control_name |-> title,
                         input_name |-> Join(input), type |-> input_type,
                         default_value |-> nodes[n].value ]
             buffer == IF input_type = "image" /\ IsInfix(<< "RGB" >>, name)
                       THEN [ buffer_name |-> "LdrColor" ]
                       ELSE IF input_type = "image" /\ IsInfix(<< "Depth" >>, name)
                       THEN [ buffer_name |-> "DepthLinearized" ]
                       ELSE EmptyDict
         IN  IF title # << >> /\ title[1] = "CAVA"
             THEN << buffer @@ values >> \o GetParamsFromWorkflow(nodes, n + 1)
             ELSE GetParamsFromWorkflow(nodes, n + 1)

\* _identifyControls (lines 148-155): every node whose title is in the
\* control name of an entry sets the entry's control_id; "" stands for an
\* entry without the key.
RECURSIVE IdentifyControls(_, _, _)
IdentifyControls(nodes, n, params) ==
    IF n > Len(nodes) THEN params
    ELSE IdentifyControls(nodes, n + 1,
            [ i \in 1..Len(params) |->
                IF IsInfix(nodes[n].title, params[i].control_name)
                THEN [ params[i] EXCEPT !.control_id = nodes[n].key ]
                ELSE params[i] ])

\* The specification as read from the .spec file, or derived from the
\* workflow when there is no .spec file (lines 93-100).
ReadParameters(file) ==
    IF file.spec # << >> THEN file.spec ELSE GetParamsFromWorkflow(file.nodes, 1)

\* self._comfy_parameters after load_workflow (lines 93-103).
LoadedParameters(file) ==
    LET read  == ReadParameters(file)
        bound == IdentifyControls(file.nodes, 1,
                    [ i \in 1..Len(read) |-> [ control_id |-> "" ] @@ read[i] ])
    IN  [ i \in 1..Len(bound) |-> [ bound[i] EXCEPT !.control_name = Join(@) ] ]

\* self._comfy_json after load_workflow, as far as the bound controls go.
LoadedJson(file, params) ==
    [ id \in { params[i].control_id : i \in { j \in 1..Len(params) : params[j].control_id # "" } } |->
        (CHOOSE node \in { file.nodes[n] : n \in 1..Len(file.nodes) } : node.key = id).value ]

\* load_workflow(name) (lines 82-104), set_mode(name).
\* Without the .json file the call raises ValueError before it has assigned
\* anything (lines 86-90).
LoadWorkflow(file) ==
    /\ IF IsFile(file)
       THEN /\ workflow' = file
            /\ load_exc' = "none"
            /\ comfy_parameters' = LoadedParameters(file)
            /\ comfy_json' = LoadedJson(file, comfy_parameters')
            /\ parameters' = ResetStore(parameters, comfy_parameters')
            /\ cleared' = Clearing("load", DOMAIN parameters \
                                    (SpecNames(comfy_parameters) \cup SpecNames(comfy_parameters')))
            /\ viewport_buffers' = EmptyDict
       ELSE /\ load_exc' = "ValueError"
            /\ UNCHANGED << workflow, cleared, comfy_parameters, comfy_json, parameters,
                            viewport_buffers >>
    /\ UNCHANGED << busy, pc, frame, last >>
    /\ UNCHANGED << pollVars, capVars, auxVars >>

-----------------------------------------------------------------------------
(* The merge: ComfyUplift._generate_prompt *)

\* updated_prompt = self._comfy_json.copy() is a shallow copy: the node
\* dictionaries are shared, so every slot written is written in the loaded
\* workflow too, and the writes made before an exception stay.
\* The keys of generation_params are visited in the order of the
\* specification (the order in which _init_parameters inserted them); a key
\* that names no parameter (a control name) matches nothing.
RECURSIVE GeneratePromptFromNoSkip(_, _, _, _, _)
GeneratePromptFromNoSkip(specs, i, generation_params, buffers, json) ==
    IF i > Len(specs) THEN [ json |-> json, exc |-> "none" ]
    ELSE LET param == specs[i] IN
        IF param.name \notin DOMAIN generation_params THEN
            GeneratePromptFromNoSkip(specs, i + 1, generation_params, buffers, json)
        ELSE IF param.control_id = "" THEN [ json |-> json, exc |-> "KeyError" ]
        ELSE IF param.type = "image" THEN
            IF param.control_name \in DOMAIN buffers THEN
                GeneratePromptFromNoSkip(specs, i + 1, generation_params, buffers,
                    [ json EXCEPT ![param.control_id] = buffers[param.control_name] ])
            ELSE [ json |-> json, exc |-> "KeyError" ]
        ELSE
            GeneratePromptFromNoSkip(specs, i + 1, generation_params, buffers,
                [ json EXCEPT ![param.control_id] = generation_params[param.name] ])

\* What is written into the slot of an image parameter (line 179): the
\* entry of self._viewport_buffers under the control name, not the value of
\* the parameter.
ImageSlotValueOfStore(param, value, buffers) == value
ImageSlotValue(param, value, buffers) == buffers[param.control_name]

RECURSIVE GeneratePromptFrom(_, _, _, _, _)
GeneratePromptFrom(specs, i, generation_params, buffers, json) ==
    IF i > Len(specs) THEN [ json |-> json, exc |-> "none" ]
    ELSE LET param == specs[i] IN
        IF param.name \notin DOMAIN generation_params \/ param.control_id = "" THEN
            GeneratePromptFrom(specs, i + 1, generation_params, buffers, json)
        ELSE IF param.type = "image" THEN
            IF param.control_name \in DOMAIN buffers THEN
                GeneratePromptFrom(specs, i + 1, generation_params, buffers,
                    [ json EXCEPT ![param.control_id] =
                        ImageSlotValue(param, generation_params[param.name], buffers) ])
            ELSE [ json |-> json, exc |-> "KeyError" ]
        ELSE
            GeneratePromptFrom(specs, i + 1, generation_params, buffers,
                [ json EXCEPT ![param.control_id] = generation_params[param.name] ])

GeneratePromptIgnoringMissing(specs, generation_params, buffers, json) ==
    [ json |-> json, exc |-> "none" ]

GeneratePrompt(specs, generation_params, buffers, json) ==
    GeneratePromptFrom(specs, 1, generation_params, buffers, json)

\* merged_prompts: every value of self._parameters followed by a newline;
\* adding a newline to a value that is no str raises TypeError.
RECURSIVE MergedFrom(_, _, _)
MergedFrom(specs, i, params) ==
    IF i > Len(specs) THEN << >>
    ELSE IF specs[i].name \in DOMAIN params
         THEN params[specs[i].name].str \o << "\n" >> \o MergedFrom(specs, i + 1, params)
         ELSE MergedFrom(specs, i + 1, params)

MergedPrompts(specs, params) ==
    IF \E n \in DOMAIN params : ~ IsStr(params[n])
    THEN [ exc |-> "TypeError", text |-> << >> ]
    ELSE [ exc |-> "none", text |-> MergedFrom(specs, 1, params) ]

\* The values the safety screen of one call reads (line 265-266).
ScreenedParameters(params, kwargs) == params

\* self._parameters after lines 258-260: generation_params is a copy of the
\* store (dict.copy(), its values are immutable), so the two updates leave
\* the store as it was.
StoreAfterMergeAliased(params, generation_params) == generation_params
StoreAfterMerge(params, generation_params) == params

-----------------------------------------------------------------------------
(* The backend's answers *)

\* An entry of a node's "images" list: its type, whether it has the three
\* keys filename / subfolder / type, and whether GET /view of it succeeds.
ImgO == [ type |-> "output", keys |-> TRUE,  fetch |-> TRUE  ]
ImgT == [ type |-> "temp",   keys |-> TRUE,  fetch |-> TRUE  ]
ImgX == [ type |-> "output", keys |-> TRUE,  fetch |-> FALSE ]
ImgN == [ type |-> "output", keys |-> FALSE, fetch |-> TRUE  ]

Node(images) == [ has_images |-> TRUE, images |-> images ]
NodeNoImages == [ has_images |-> FALSE, images |-> << >> ]

NodeOutputs ==
    { NodeNoImages } \cup
    { Node(l) : l \in { << >>, <<ImgO>>, <<ImgT>>, <<ImgX>>, <<ImgN>>,
                        <<ImgT, ImgO>>, <<ImgO, ImgT>>, <<ImgO, ImgX>>, <<ImgN, ImgO>> } }

Histories ==
    { <<n>> : n \in NodeOutputs } \cup
    { << Node(<<ImgO>>), Node(<<ImgO>>) >>, << Node(<<ImgO>>), Node(<<ImgX>>) >>,
      << Node(<<ImgX>>), Node(<<ImgO>>) >>, << Node(<<ImgT>>), Node(<<ImgO>>) >>,
      << Node(<<ImgT>>), Node(<<ImgX>>) >> }

\* GET /history/<prompt_id>: urlopen raises, or the JSON has no entry for the
\* prompt id yet, or it has one with these node outputs.
Responses ==
    { [ kind |-> "error", outputs |-> << >> ], [ kind |-> "absent", outputs |-> << >> ] } \cup
    { [ kind |-> "history", outputs |-> h ] : h \in Histories }

\* The answers the backend gives to the polling of generate().
GenResponses ==
    { [ kind |-> "error", outputs |-> << >> ], [ kind |-> "absent", outputs |-> << >> ] } \cup
    { [ kind |-> "history", outputs |-> h ] : h \in
        { << NodeNoImages >>, << Node(<<ImgO>>) >>, << Node(<<ImgT>>) >>, << Node(<<ImgX>>) >>,
          << Node(<<ImgO>>), Node(<<ImgX>>) >>, << Node(<<ImgT>>), Node(<<ImgO>>) >> } }

-----------------------------------------------------------------------------
(* Polling: ComfyUplift._get_images *)

\* timeout and interval are the defaults of _get_images; the model runs with
\* a short timeout.
Timeout  == 3
Interval == 1
NumTry   == Timeout \div Interval

Artifact(t, n, i, ty) == [ try |-> t, node |-> n, idx |-> i, type |-> ty ]

\* Whether allow_preview lets a temp image be fetched (line 212).
TakesPreview(allow_preview, image) == allow_preview /\ image.type = "temp"

\* What output_data holds after the entry image has been handled (lines
\* 212-221); data is a sequence of at most one artifact (empty: None).
AfterImage(data, allow_preview, image, art) ==
    LET d1 == IF TakesPreview(allow_preview, image) THEN <<art>> ELSE data
    IN  IF image.type = "output" THEN <<art>> ELSE d1

\* The loop over node_output["images"] (lines 207-221).
RECURSIVE ScanImages(_, _, _, _, _, _)
ScanImages(images, i, allow_preview, t, n, acc) ==
    IF i > Len(images) THEN acc
    ELSE LET image == images[i]
             fetched == TakesPreview(allow_preview, image) \/ image.type = "output"
         IN
         IF ~ image.keys THEN ScanImages(images, i + 1, allow_preview, t, n, acc)
         ELSE IF fetched /\ ~ image.fetch THEN
             [ acc EXCEPT !.raised = TRUE, !.views = @ + 1 ]
         ELSE ScanImages(images, i + 1, allow_preview, t, n,
                [ acc EXCEPT !.data = AfterImage(@, allow_preview, image,
                                                 Artifact(t, n, i, image.type)),
                             !.views = @ + (IF fetched THEN 1 ELSE 0) ])

\* The loop over history["outputs"] (lines 203-223).
RECURSIVE ScanNodes(_, _, _, _, _)
ScanNodes(outputs, n, allow_preview, t, acc) ==
    IF n > Len(outputs) THEN acc
    ELSE IF ~ outputs[n].has_images THEN ScanNodes(outputs, n + 1, allow_preview, t, acc)
    ELSE LET r == ScanImages(outputs[n].images, 1, allow_preview, t, n,
                             [ data |-> << >>, views |-> 0, raised |-> FALSE ])
         IN  IF r.raised
             THEN [ acc EXCEPT !.raised = TRUE, !.views = @ + r.views ]
             ELSE ScanNodes(outputs, n + 1, allow_preview, t,
                    [ acc EXCEPT !.images = @ \o r.data, !.views = @ + r.views ])

\* The exception an attempt ends with, "none" when it ends with none.
AttemptCause(resp, scan) ==
    IF resp.kind = "error" THEN "URLError"
    ELSE IF resp.kind = "absent" THEN "KeyError"
    ELSE IF scan.raised THEN "HTTPError"
    ELSE "none"

\* try_id == num_try - 1 (line 225)
IsLastTryOffByOne(try_id) == try_id = NumTry
IsLastTry(try_id) == try_id = NumTry - 1

\* The try_id of the next pass of `for try_id in range(num_try)`.
NextTryStuck(try_id) == try_id
NextTry(try_id) == try_id + 1

\* What the statements after the loop make of the images (lines 232-235).
AfterLoop(output_images) == IF Len(output_images) = 0 THEN "RuntimeError" ELSE "return"

\* Whether the loop goes on after an attempt that raised nothing: `break`.
BreaksAfterAttempt(output_images) == TRUE

\* The locals of a run of _get_images when it starts.
NewPoll(allow_preview) ==
    [ allow_preview |-> allow_preview, try_id |-> 0, output_images |-> << >>,
      status |-> "loop", cause |-> "none", n_history |-> 0, n_view |-> 0 ]

\* One pass through the loop body, with the backend answering resp.
GetImagesAttempt(f, resp) ==
    LET scan  == IF resp.kind = "history"
                 THEN ScanNodes(resp.outputs, 1, f.allow_preview, f.try_id + 1,
                                [ images |-> f.output_images, views |-> 0, raised |-> FALSE ])
                 ELSE [ images |-> f.output_images, views |-> 0, raised |-> FALSE ]
        cause == AttemptCause(resp, scan)
        g     == [ f EXCEPT !.output_images = scan.images,
                            !.n_history = @ + 1, !.n_view = @ + scan.views ]
    IN  IF cause # "none" THEN
            IF IsLastTry(f.try_id)
            THEN [ g EXCEPT !.status = "TimeoutError", !.cause = cause ]
            ELSE IF NextTry(f.try_id) < NumTry
                 THEN [ g EXCEPT !.try_id = NextTry(f.try_id) ]
                 ELSE [ g EXCEPT !.status = AfterLoop(g.output_images) ]
        ELSE IF BreaksAfterAttempt(g.output_images) \/ NextTry(f.try_id) >= NumTry
             THEN [ g EXCEPT !.status = AfterLoop(g.output_images) ]
             ELSE [ g EXCEPT !.try_id = NextTry(f.try_id) ]


-----------------------------------------------------------------------------
(* generate(): what its caller gets *)

\* The tasks that await generate(): the input window's Run click
\* (uplift_input_window.py:173) and the setup extension's event and batch
\* handlers (setup.py:242, 327).  The model lets a call start between any two
\* backend requests of a call in flight; the code lets it start only where
\* the call in flight gives up the processor, so the model's interleavings
\* include the code's.
Callers == { "window", "setup" }

RetUnset == [ kind |-> "unset",  pixels |-> "",        of |-> << >>, size |-> << >> ]
RetNone  == [ kind |-> "None",   pixels |-> "",        of |-> << >>, size |-> << >> ]
Raised   == [ kind |-> "raise",  pixels |-> "",        of |-> << >>, size |-> << >> ]
\* np.zeros([1024, 1024]) read as RGBA: every pixel is (0, 0, 0, 0).
RetPlaceholder == [ kind |-> "pixels", pixels |-> "zeros", of |-> << >>, size |-> << 1024, 1024 >> ]
\* The first image of output_images, opened and converted to RGBA.
RetImage(art) == [ kind |-> "pixels", pixels |-> "decoded", of |-> << art >>, size |-> << 512, 512 >> ]

\* The classes `except Exception` catches: every exception the body raises.
ExceptionClasses ==
    { "KeyError", "TypeError", "URLError", "TimeoutError", "RuntimeError",
      "UnidentifiedImageError" }

CaughtOnlyRuntimeError(exc) == exc = "RuntimeError"
Caught(exc) == exc \in ExceptionClasses

\* What the caller sees of a call whose body ended with `exc` raised ("none":
\* with `ret` returned): lines 306-307.
Returned(exc, ret) ==
    IF exc = "none" THEN ret
    ELSE IF Caught(exc) THEN RetNone
    ELSE Raised

\* self.busy after the call has left the try statement: the finally clause
\* (lines 308-309).
BusyAfterSkippedOnError(exc) == exc # "none"
BusyAfter(exc) == FALSE

\* Whether the call returns the placeholder without contacting the backend
\* (lines 269-276).
ShortCircuitsNever(text) == FALSE
ShortCircuits(text) == Len(text) > 0 /\ ~ IsSafe(text)

\* The busy guard (line 249).
RejectedNever(b) == FALSE
Rejected(b) == b

IdleFrame ==
    [ request_data |-> EmptyDict, f |-> NewPoll(FALSE), n_post |-> 0, screen |-> "notrun" ]

\* The record of a return: what was returned, the exception raised inside
\* the body, the verdict of the safety screen in that call, whether the call
\* had passed the busy guard, and the backend requests the call issued.
Return(exc, ret, fr, guard) ==
    [ ret |-> Returned(exc, ret), exc |-> exc, screen |-> fr.screen,
      guard |-> guard, n_post |-> fr.n_post, n_history |-> fr.f.n_history,
      n_view |-> fr.f.n_view ]

\* The call of caller c leaves the try statement.
Finish(c, exc, ret, fr) ==
    /\ pc' = [ pc EXCEPT ![c] = "idle" ]
    /\ frame' = [ frame EXCEPT ![c] = IdleFrame ]
    /\ busy' = BusyAfter(exc)
    /\ last' = Return(exc, ret, fr, "passed")

-----------------------------------------------------------------------------
(* generate(): its steps *)

\* Line 251 returns before the try statement is entered, so the finally
\* clause of line 308 does not run for a call that the guard turns away.
BusyAfterGuardInTry(b) == BusyAfter("none")
BusyAfterGuard(b) == b

\* Lines 249-251: the call finds the model busy.
GenerateBusy(c) ==
    /\ pc[c] = "idle"
    /\ Rejected(busy)
    /\ last' = Return("none", RetNone, IdleFrame, "busy")
    /\ busy' = BusyAfterGuard(busy)
    /\ UNCHANGED << comfy_parameters, comfy_json, parameters, viewport_buffers,
                    pc, frame >>
    /\ UNCHANGED << loadVars, pollVars, capVars, auxVars >>

\* Lines 253-283: busy is set, the parameters are merged into the workflow,
\* the texts are screened and the request body is built.
GenerateBody(c, kwargs) ==
    /\ pc[c] = "idle"
    /\ ~ Rejected(busy)
    /\ LET generation_params == Update(Update(parameters, kwargs), viewport_buffers)
           m  == GeneratePrompt(comfy_parameters, generation_params, viewport_buffers,
                                comfy_json)
           mp == MergedPrompts(comfy_parameters, ScreenedParameters(parameters, kwargs))
           unsafe == ShortCircuits(mp.text)
           fr == [ IdleFrame EXCEPT
                     !.request_data = m.json,
                     !.screen = IF m.exc # "none" \/ mp.exc # "none" \/ Len(mp.text) = 0
                                THEN "notrun"
                                ELSE IF IsSafe(mp.text) THEN "safe" ELSE "unsafe" ]
       IN  /\ comfy_json' = m.json
           /\ IF m.exc # "none" THEN Finish(c, m.exc, RetNone, fr)
              ELSE IF mp.exc # "none" THEN Finish(c, mp.exc, RetNone, fr)
              ELSE IF unsafe THEN Finish(c, "none", RetPlaceholder, fr)
              ELSE /\ busy' = TRUE
                   /\ pc' = [ pc EXCEPT ![c] = "submit" ]
                   /\ frame' = [ frame EXCEPT ![c] = fr ]
                   /\ UNCHANGED last
           /\ parameters' = StoreAfterMerge(parameters, generation_params)
    /\ UNCHANGED << comfy_parameters, viewport_buffers >>

GenerateStart(c, kwargs) ==
    /\ GenerateBody(c, kwargs)
    /\ UNCHANGED << loadVars, pollVars, capVars, auxVars >>

\* Lines 285-286: POST /prompt; the backend accepts the job and answers with
\* a prompt id, or urlopen raises.
Submit(c, accepted) ==
    /\ pc[c] = "submit"
    /\ LET fr == [ frame[c] EXCEPT !.n_post = @ + 1 ]
       IN  IF accepted
           THEN /\ pc' = [ pc EXCEPT ![c] = "poll" ]
                /\ frame' = [ frame EXCEPT ![c] = fr ]
                /\ UNCHANGED << busy, last >>
           ELSE Finish(c, "URLError", RetNone, fr)
    /\ UNCHANGED << comfy_parameters, comfy_json, parameters, viewport_buffers >>
    /\ UNCHANGED << loadVars, pollVars, capVars, auxVars >>

\* Lines 292-304: one attempt of _get_images(prompt_id, self._comfy_url), and
\* when it was the last one, the decoding of the first image.
Poll(c, resp) ==
    /\ pc[c] = "poll"
    /\ LET f  == GetImagesAttempt(frame[c].f, resp)
           fr == [ frame[c] EXCEPT !.f = f ]
       IN  IF f.status = "loop"
           THEN /\ frame' = [ frame EXCEPT ![c] = fr ]
                /\ UNCHANGED << busy, pc, last >>
           ELSE IF f.status # "return" THEN Finish(c, f.status, RetNone, fr)
           ELSE \E decodes \in BOOLEAN :
                  IF decodes THEN Finish(c, "none", RetImage(f.output_images[1]), fr)
                  ELSE Finish(c, "UnidentifiedImageError", RetNone, fr)
    /\ UNCHANGED << comfy_parameters, comfy_json, parameters, viewport_buffers >>
    /\ UNCHANGED << loadVars, pollVars, capVars, auxVars >>

-----------------------------------------------------------------------------
(* AbstractUpliftModel: the parameter store and the buffer map *)

\* The values a parameter of a type is set to by the widgets.
ValuesOf(type) ==
    IF type = "string" THEN { Str(t) : t \in Texts }
    ELSE IF type = "float" THEN { Num(1), Num(2) }
    ELSE { }

\* The values the parameter widgets set a name to: those of the type the
\* specification gives the name (uplift_parameters.py:480-494).
WidgetValues(name) ==
    IF name \in SpecNames(comfy_parameters)
    THEN ValuesOf(SpecOf(comfy_parameters, name).type) ELSE { }

\* The names the setup extension sets, in the specification or not, and the
\* values it sets them to (setup.py:211-226, 317-320).
PromptNames  == { "style", "cfg" }
PromptValues == ValuesOf("string")

\* set_parameters(name, value_type, value) with value_type float, int or
\* string (lines 48-53).
SetParameters(name, value) ==
    /\ parameters' = Update(parameters, [ k \in { name } |-> value ])
    /\ UNCHANGED << busy, comfy_parameters, comfy_json, viewport_buffers, pc, frame, last >>
    /\ UNCHANGED << loadVars, pollVars, capVars, auxVars >>

UpdateViewportBuffers(buffers) ==
    /\ viewport_buffers' = buffers
    /\ UNCHANGED << busy, comfy_parameters, comfy_json, parameters, pc, frame, last >>
    /\ UNCHANGED << loadVars, pollVars, capVars, auxVars >>

ResetParameters ==
    /\ viewport_buffers' = EmptyDict
    /\ parameters' = ResetStore(parameters, comfy_parameters)
    /\ cleared' = Clearing("reset", DOMAIN parameters \ SpecNames(comfy_parameters))
    /\ UNCHANGED << busy, comfy_parameters, comfy_json, pc, frame, last >>
    /\ UNCHANGED << workflow, load_exc, pollVars, capVars, auxVars >>

-----------------------------------------------------------------------------
(* A run of _get_images on its own, with either value of allow_preview *)

\* poll.f: the locals; poll.hist: the backend's answers so far, in order.
GetImagesCall(allow_preview) ==
    /\ poll.f.status # "loop"
    /\ poll' = [ f |-> NewPoll(allow_preview), hist |-> << >> ]
    /\ UNCHANGED upcoming
    /\ UNCHANGED << genVars, loadVars, capVars, auxVars >>

GetImagesStep ==
    /\ poll.f.status = "loop"
    /\ poll' = [ f |-> GetImagesAttempt(poll.f, upcoming), hist |-> Append(poll.hist, upcoming) ]
    /\ upcoming' \in Responses
    /\ UNCHANGED << genVars, loadVars, capVars, auxVars >>

-----------------------------------------------------------------------------
(* ViewportBuffersCapture: the scene, the capture plan *)

Assets     == "/World/Assets"
Base       == "/World/Assets/KitchenBase"
Prop       == "/World/Assets/Prop"
Missing    == "/World/Assets/Missing"
WindowPane == "/World/Assets/KitchenBase/Kitchen/window1/window_pane"
LakeView   == "/World/Cameras/ProjectionTemplate_LakeView"
Lookout    == "/World/Cameras/ProjectionTemplate_lookout"

\* The prims of the stage, each with its parent and its name.  GetParent()
\* is asked of valid prims only in the plans below.
ParentOf ==
    ( Assets :> "/World" ) @@ ( Base :> Assets ) @@ ( Prop :> Assets ) @@
    ( Base \o "/Kitchen" :> Base ) @@
    ( Base \o "/Kitchen/walls" :> Base \o "/Kitchen" ) @@
    ( Base \o "/Kitchen/window1" :> Base \o "/Kitchen" ) @@
    ( Base \o "/Kitchen/cabinets" :> Base \o "/Kitchen" ) @@
    ( Base \o "/Kitchen/window1/window" :> Base \o "/Kitchen/window1" ) @@
    ( WindowPane :> Base \o "/Kitchen/window1" ) @@
    ( LakeView :> "/World/Cameras" ) @@ ( Lookout :> "/World/Cameras" )

NameOf ==
    ( Assets :> "Assets" ) @@ ( Base :> "KitchenBase" ) @@ ( Prop :> "Prop" ) @@
    ( Base \o "/Kitchen" :> "Kitchen" ) @@
    ( Base \o "/Kitchen/walls" :> "walls" ) @@
    ( Base \o "/Kitchen/window1" :> "window1" ) @@
    ( Base \o "/Kitchen/cabinets" :> "cabinets" ) @@
    ( Base \o "/Kitchen/window1/window" :> "window" ) @@
    ( WindowPane :> "window_pane" ) @@
    ( LakeView :> "ProjectionTemplate_LakeView" ) @@
    ( Lookout :> "ProjectionTemplate_lookout" )

Prims == DOMAIN ParentOf

\* prim.IsValid() of stage.GetPrimAtPath(path)
IsValid(path) == path \in Prims

\* parent_prim.GetChildren() of the parent of the prim at `path`, empty when
\* the parent is not valid.
Siblings(path) ==
    IF IsValid(ParentOf[path]) THEN { q \in Prims : ParentOf[q] = ParentOf[path] } ELSE { }

\* The children of the walls' parent that the walls_hideme policy leaves alone.
KeptNames == { "window1", "countertops", "cabinets" }

Policies == { "hideme", "hideothers", "walls_hideothers", "walls_hideme" }

HiddenDespiteInvalid(entry) == { q \in Prims : ParentOf[q] = Assets }

\* The prims whose visibility the entry's policy sets to "invisible"
\* (lines 252-336).
Hidden(entry) ==
    LET asset_path == entry.asset_path
        walls  == asset_path \o "/Kitchen/walls"
        window == asset_path \o "/Kitchen/window1/window"
        byPolicy ==
            IF entry.visibility = "hideme"
            THEN IF IsValid(asset_path) THEN { asset_path } ELSE { }
            ELSE IF entry.visibility = "hideothers"
            THEN Siblings(asset_path) \ { asset_path }
            ELSE IF entry.visibility = "walls_hideothers"
            THEN (Siblings(asset_path) \ { asset_path }) \cup (Siblings(walls) \ { walls })
            ELSE IF entry.visibility = "walls_hideme"
            THEN (Siblings(asset_path) \ { asset_path })
                 \cup { q \in Siblings(walls) : NameOf[q] \notin KeptNames }
                 \cup (IF IsValid(window) THEN { window } ELSE { })
            ELSE { }
        byAov ==
            IF entry.aov_name = "DepthLinearized" /\ IsValid(WindowPane)
            THEN { WindowPane } ELSE { }
    IN  byPolicy \cup byAov

\* The prims whose visibility the entry's revert sets to "inherited"
\* (lines 351-432).
Restored(entry) ==
    LET asset_path == entry.asset_path
        walls  == asset_path \o "/Kitchen/walls"
        window == asset_path \o "/Kitchen/window1/window"
        byPolicy ==
            IF entry.visibility = "hideme"
            THEN IF IsValid(asset_path) THEN { asset_path } ELSE { }
            ELSE IF entry.visibility = "hideothers"
            THEN Siblings(asset_path) \ { asset_path }
            ELSE IF entry.visibility = "walls_hideothers"
            THEN Siblings(asset_path) \cup Siblings(walls)
            ELSE IF entry.visibility = "walls_hideme"
            THEN Siblings(asset_path)
                 \cup { q \in Siblings(walls) : NameOf[q] \notin KeptNames }
                 \cup (IF IsValid(window) THEN { window } ELSE { })
            ELSE { }
        byAov ==
            IF entry.aov_name = "DepthLinearized" /\ IsValid(WindowPane)
            THEN { WindowPane } ELSE { }
    IN  byPolicy \cup byAov

\* prim_visibility.Set(value) on every prim of the set
SetVisibility(st, prims, value) ==
    [ q \in DOMAIN st |-> IF q \in prims THEN value ELSE st[q] ]

FRAMES_TO_WAIT == 5

\* frames_to_wait after the policy and the AOV have been looked at
\* (lines 251-336, and again lines 350-432).
FramesToWait(entry) ==
    IF entry.visibility \in Policies \/ entry.aov_name = "DepthLinearized"
    THEN FRAMES_TO_WAIT ELSE 0

\* A plan entry: [buffer_name, control_name, asset_path, visibility]
\* (setup.py, _setup_viewport_buffers).
Entry(aov_name, control_name, asset_path, visibility) ==
    [ aov_name |-> aov_name, control_name |-> control_name,
      asset_path |-> asset_path, visibility |-> visibility ]

EntryRGB == Entry("LdrColor", "CAVA(image): RGB", Base, "showall")

Entries ==
    { EntryRGB,
      Entry("DepthLinearized", "CAVA(image): depth", Base, "showall"),
      Entry("LdrColor", "CAVA(image): mask", Base, "hideothers"),
      Entry("LdrColor", "CAVA(image): prop", Prop, "hideme"),
      Entry("LdrColor", "CAVA(image): none", Missing, "hideme"),
      Entry("LdrColor", "CAVA(image): walls", Base, "walls_hideothers"),
      Entry("DepthLinearized", "CAVA(image): room", Base, "walls_hideme") }

SecondEntries ==
    { EntryRGB, Entry("LdrColor", "CAVA(image): prop", Prop, "hideme") }

\* The capture plans: no image parameter, one, or two.
Plans ==
    { << >> } \cup { << e >> : e \in Entries }
    \cup { << a, b >> : a \in Entries, b \in SecondEntries }

\* self.active_buffer_types, set together with the plan.
BufferTypes(plan) == [ i \in 1..Len(plan) |-> plan[i].aov_name ]

\* _add_render_vars with a relationship that lists a target as often as
\* AddTarget is called with it.
RECURSIVE AddRenderVarsListedTwice(_, _, _, _)
AddRenderVarsListedTwice(ordered_vars, listed, render_var_names, i) ==
    IF i > Len(render_var_names) THEN listed
    ELSE LET render_var_path == "/Render/Vars/" \o render_var_names[i]
         IN  IF \E k \in 1..Len(ordered_vars) : ordered_vars[k] = render_var_path
             THEN AddRenderVarsListedTwice(ordered_vars, listed, render_var_names, i + 1)
             ELSE AddRenderVarsListedTwice(ordered_vars, Append(listed, render_var_path),
                                           render_var_names, i + 1)

\* _add_render_vars: a render variable that was not on the ordered list when
\* the call began is defined and added as a target.
RECURSIVE AddRenderVars(_, _, _, _)
AddRenderVars(ordered_vars, listed, render_var_names, i) ==
    IF i > Len(render_var_names) THEN listed
    ELSE LET render_var_path == "/Render/Vars/" \o render_var_names[i]
         IN  IF \E k \in 1..Len(ordered_vars) : ordered_vars[k] = render_var_path
             THEN AddRenderVars(ordered_vars, listed, render_var_names, i + 1)
             ELSE AddRenderVars(ordered_vars,
                                IF \E k \in 1..Len(listed) : listed[k] = render_var_path
                                THEN listed ELSE Append(listed, render_var_path),
                                render_var_names, i + 1)

-----------------------------------------------------------------------------
(* capture_viewport_async: its steps.  Each step ends at an await or at the  *)
(* border of a block of the loop body.                                      *)

\* The runs of capture_viewport_async: the second begins after the first has
\* ended, or while the first is suspended at an await.
Runs == { "first", "second" }

Event(i, ev) == [ entry |-> i, ev |-> ev ]

\* Where the loop body goes from a position, in program order.
StepAfterNoAwait(at, frames_to_wait) ==
    IF at = "apply" THEN (IF frames_to_wait > 0 THEN "wait_before" ELSE "schedule")
    ELSE IF at = "wait_before" THEN "schedule"
    ELSE IF at = "schedule" THEN "revert"
    ELSE IF at = "await" THEN "revert"
    ELSE IF at = "revert" THEN (IF frames_to_wait > 0 THEN "wait_after" ELSE "next")
    ELSE "next"

StepAfter(at, frames_to_wait) ==
    IF at = "apply" THEN (IF frames_to_wait > 0 THEN "wait_before" ELSE "schedule")
    ELSE IF at = "wait_before" THEN "schedule"
    ELSE IF at = "schedule" THEN "await"
    ELSE IF at = "await" THEN "revert"
    ELSE IF at = "revert" THEN (IF frames_to_wait > 0 THEN "wait_after" ELSE "next")
    ELSE "next"

\* Run r moves on from position `at` of entry cap_i[r]; "next" is the head of
\* the for loop (line 250 after line 435).
MoveOn(r, at, frames_to_wait) ==
    LET to == StepAfter(at, frames_to_wait)
    IN  IF to # "next"
        THEN /\ cap_pc' = [ cap_pc EXCEPT ![r] = to ]
             /\ UNCHANGED cap_i
        ELSE /\ cap_i' = [ cap_i EXCEPT ![r] = @ + 1 ]
             /\ cap_pc' = [ cap_pc EXCEPT ![r] =
                              IF cap_i[r] + 1 > Len(capture_types) THEN "backdrop"
                              ELSE "apply" ]

Log(r, evs) == cap_events' = [ cap_events EXCEPT ![r] = @ \o evs ]

\* What is remembered of a run that begins: nothing yet.
NewHist == [ before |-> << >>, stored |-> { }, dropped |-> { }, after |-> { } ]

\* Lines 243-250: the render variables are added and the loop is entered.
CaptureStart(r) ==
    /\ cap_pc[r] = "idle"
    /\ render_vars' = AddRenderVars(render_vars, render_vars, BufferTypes(capture_types), 1)
    /\ cap_i' = [ cap_i EXCEPT ![r] = 1 ]
    /\ cap_pc' = [ cap_pc EXCEPT ![r] = IF Len(capture_types) = 0 THEN "backdrop" ELSE "apply" ]
    /\ cap_events' = [ cap_events EXCEPT ![r] = << >> ]
    /\ UNCHANGED << stage, backdrop, capture_types, cap_buffers >>
    /\ cap_hist' = [ cap_hist EXCEPT ![r] =
                        [ NewHist EXCEPT !.after = { o \in Runs : cap_pc[o] \in { "done", "failed" } } ] ]
    /\ UNCHANGED << genVars, loadVars, pollVars, auxVars >>

\* Lines 251-336: the visibility policy of the entry is applied.
Apply(r) ==
    /\ cap_pc[r] = "apply"
    /\ LET entry == capture_types[cap_i[r]]
       IN  /\ stage' = SetVisibility(stage, Hidden(entry), "invisible")
           /\ Log(r, IF FramesToWait(entry) > 0 THEN << Event(cap_i[r], "apply") >> ELSE << >>)
           /\ MoveOn(r, "apply", FramesToWait(entry))
    /\ UNCHANGED << render_vars, backdrop, capture_types, cap_buffers >>
    /\ cap_hist' = [ cap_hist EXCEPT ![r].before =
                        IF FramesToWait(capture_types[cap_i[r]]) > 0 THEN stage ELSE << >> ]
    /\ UNCHANGED << genVars, loadVars, pollVars, auxVars >>

\* Lines 337-338: the frames have been rendered.
WaitBefore(r) ==
    /\ cap_pc[r] = "wait_before"
    /\ Log(r, << Event(cap_i[r], "wait") >>)
    /\ MoveOn(r, "wait_before", FRAMES_TO_WAIT)
    /\ UNCHANGED << stage, render_vars, backdrop, capture_types, cap_buffers >>
    /\ UNCHANGED cap_hist
    /\ UNCHANGED << genVars, loadVars, pollVars, auxVars >>

\* Lines 340-346: the capture of the entry's AOV is scheduled, or
\* schedule_capture raises and the run ends there.
ScheduleCapture(r, scheduled) ==
    /\ cap_pc[r] = "schedule"
    /\ IF scheduled
       THEN /\ Log(r, << Event(cap_i[r], "request") >>)
            /\ MoveOn(r, "schedule", 0)
       ELSE /\ cap_pc' = [ cap_pc EXCEPT ![r] = "failed" ]
            /\ UNCHANGED << cap_i, cap_events >>
    /\ UNCHANGED << stage, render_vars, backdrop, capture_types, cap_buffers >>
    /\ UNCHANGED cap_hist
    /\ UNCHANGED << genVars, loadVars, pollVars, auxVars >>

\* The entries of run r with a capture requested whose callback has not run.
Pending(r) ==
    { i \in 1..Len(capture_types) :
        /\ \E k \in 1..Len(cap_events[r]) : cap_events[r][k] = Event(i, "request")
        /\ ~ \E k \in 1..Len(cap_events[r]) : cap_events[r][k] = Event(i, "callback") }

\* self._viewport_buffers after the callback: the encoded image is stored
\* under the control name (line 227) when the decoding got that far; an
\* exception before that is caught (lines 232-236) and nothing is stored.
StoreCapturedAlways(buffers, entry, decoded) ==
    Update(buffers, [ k \in { entry.control_name } |-> B64(entry.aov_name) ])

StoreCaptured(buffers, entry, decoded) ==
    IF decoded
    THEN Update(buffers, [ k \in { entry.control_name } |-> B64(entry.aov_name) ])
    ELSE buffers

\* Lines 87-239: the renderer calls _on_viewport_captured with the buffer;
\* the image is stored under the control name unless the decoding fails.
OnViewportCaptured(r, i, decoded) ==
    /\ cap_pc[r] # "failed"
    /\ i \in Pending(r)
    /\ cap_buffers' = StoreCaptured(cap_buffers, capture_types[i], decoded)
    /\ Log(r, << Event(i, "callback") >>)
    /\ UNCHANGED << stage, render_vars, backdrop, capture_types, cap_pc, cap_i >>
    /\ cap_hist' = IF decoded
                   THEN [ cap_hist EXCEPT ![r].stored = @ \cup { i } ]
                   ELSE [ cap_hist EXCEPT ![r].dropped = @ \cup { i } ]
    /\ UNCHANGED << genVars, loadVars, pollVars, auxVars >>

\* Line 348: wait_for_result() returns once the callback has run.
CaptureResult(r) ==
    /\ cap_pc[r] = "await"
    /\ cap_i[r] \notin Pending(r)
    /\ MoveOn(r, "await", 0)
    /\ UNCHANGED << stage, render_vars, backdrop, capture_types, cap_buffers, cap_events >>
    /\ UNCHANGED cap_hist
    /\ UNCHANGED << genVars, loadVars, pollVars, auxVars >>

\* Line 348: wait_for_result() raises, and the run ends there.
CaptureFails(r) ==
    /\ cap_pc[r] = "await"
    /\ cap_i[r] \in Pending(r)
    /\ cap_pc' = [ cap_pc EXCEPT ![r] = "failed" ]
    /\ UNCHANGED << stage, render_vars, backdrop, capture_types, cap_buffers, cap_i,
                    cap_events >>
    /\ UNCHANGED cap_hist
    /\ UNCHANGED << genVars, loadVars, pollVars, auxVars >>

\* Lines 350-432: the visibility is set back.
Revert(r) ==
    /\ cap_pc[r] = "revert"
    /\ LET entry == capture_types[cap_i[r]]
       IN  /\ stage' = SetVisibility(stage, Restored(entry), "inherited")
           /\ Log(r, IF FramesToWait(entry) > 0 THEN << Event(cap_i[r], "revert") >> ELSE << >>)
           /\ MoveOn(r, "revert", FramesToWait(entry))
    /\ UNCHANGED << render_vars, backdrop, capture_types, cap_buffers >>
    /\ UNCHANGED cap_hist
    /\ UNCHANGED << genVars, loadVars, pollVars, auxVars >>

\* Lines 433-435: the frames have been rendered; on to the next entry.
WaitAfter(r) ==
    /\ cap_pc[r] = "wait_after"
    /\ Log(r, << Event(cap_i[r], "wait") >>)
    /\ MoveOn(r, "wait_after", FRAMES_TO_WAIT)
    /\ UNCHANGED << stage, render_vars, backdrop, capture_types, cap_buffers >>
    /\ cap_hist' = [ cap_hist EXCEPT ![r].before = << >> ]
    /\ UNCHANGED << genVars, loadVars, pollVars, auxVars >>

\* Lines 437-451: with both projection templates shown, the Lake_view
\* variant is pushed; otherwise the run returns.
BackdropLakeView(r) ==
    /\ cap_pc[r] = "backdrop"
    /\ IF stage[LakeView] = "inherited" /\ stage[Lookout] = "inherited"
       THEN /\ backdrop' = "Lake_view"
            /\ cap_pc' = [ cap_pc EXCEPT ![r] = "backdrop_lookout" ]
       ELSE /\ cap_pc' = [ cap_pc EXCEPT ![r] = "done" ]
            /\ UNCHANGED backdrop
    /\ UNCHANGED << stage, render_vars, capture_types, cap_buffers, cap_i, cap_events >>
    /\ UNCHANGED cap_hist
    /\ UNCHANGED << genVars, loadVars, pollVars, auxVars >>

\* Lines 453-462: after five updates the Lookout variant is pushed, and after
\* five more the run returns.
BackdropLookout(r) ==
    /\ cap_pc[r] = "backdrop_lookout"
    /\ backdrop' = "Lookout"
    /\ cap_pc' = [ cap_pc EXCEPT ![r] = "done" ]
    /\ UNCHANGED << stage, render_vars, capture_types, cap_buffers, cap_i, cap_events >>
    /\ UNCHANGED cap_hist
    /\ UNCHANGED << genVars, loadVars, pollVars, auxVars >>

\* A call of _is_safe, lines 237-246.
IsSafeCall ==
    /\ screen.at = "call"
    /\ screen' = [ at |-> "done", text |-> screen.text, safe |-> IsSafe(screen.text) ]
    /\ UNCHANGED << send, decode, tasks, widget >>
    /\ UNCHANGED << genVars, loadVars, pollVars, capVars >>

-----------------------------------------------------------------------------
(* _send_image: an image as a sequence of transfer messages *)

\* Python's a // b for b # 0: the floor of a / b.
FloorDiv(a, b) == IF b > 0 THEN a \div b ELSE (0 - a) \div (0 - b)

HexDigits ==
    << "0", "1", "2", "3", "4", "5", "6", "7", "8", "9", "a", "b", "c", "d", "e", "f" >>

\* bytes.hex(): two digits for every byte.
RECURSIVE Hex(_)
Hex(chunk) ==
    IF chunk = << >> THEN << >>
    ELSE << HexDigits[(Head(chunk) \div 16) + 1], HexDigits[(Head(chunk) % 16) + 1] >>
         \o Hex(Tail(chunk))

\* The image after the conversion to RGBA and the resize: img.width,
\* img.height and img.tobytes(), four bytes for a pixel.
SentImages ==
    { [ width |-> 1, height |-> 1, bytes |-> << 0, 0, 0, 0 >> ],
      [ width |-> 1, height |-> 1, bytes |-> << 18, 52, 86, 255 >> ],
      [ width |-> 2, height |-> 1, bytes |-> << 1, 35, 69, 255, 103, 137, 171, 205 >> ] }

\* img.getbbox() is None: every byte of the image is 0 (line 416).
EmptyBBox(img) == \A k \in 1..Len(img.bytes) : img.bytes[k] = 0

\* max_message_size ranges up to MaxMessageSize; metadata_size, the length
\* of the JSON text of a message without data, is one of MetadataSizes.
MaxMessageSize == 12
MetadataSizes  == { 3, 4 }

\* Line 467
MaxDataSize(max_message_size, metadata_size) == FloorDiv(max_message_size - metadata_size, 2)

\* Line 470: the ceiling of len(img_bytes) / max_data_size.
TotalPartsFloor(len, max_data_size) == FloorDiv(len, max_data_size)
TotalParts(len, max_data_size) == 0 - FloorDiv(0 - len, max_data_size)

\* Lines 473-475: img_bytes[start:end]
Chunk(img_bytes, part, max_data_size) ==
    LET start == part * max_data_size
        end   == IF (part + 1) * max_data_size < Len(img_bytes)
                 THEN (part + 1) * max_data_size ELSE Len(img_bytes)
    IN  SubSeq(img_bytes, start + 1, end)

\* The call as it begins.
NewSend(img, max_message_size, metadata_size) ==
    [ img |-> img, max_message_size |-> max_message_size, metadata_size |-> metadata_size,
      at |-> "call", max_data_size |-> 0, total_parts |-> 0, part |-> 0,
      messages |-> << >> ]

\* Lines 416-470: the status, the size of a chunk and the number of parts;
\* the division by a max_data_size of 0 raises ZeroDivisionError.
SendImageCall ==
    /\ send.at = "call"
    /\ LET max_data_size == MaxDataSize(send.max_message_size, send.metadata_size)
           total_parts == TotalParts(Len(send.img.bytes), max_data_size)
       IN  send' = IF max_data_size = 0
                   THEN [ send EXCEPT !.at = "ZeroDivisionError" ]
                   ELSE [ send EXCEPT !.max_data_size = max_data_size,
                                      !.total_parts = total_parts,
                                      !.at = IF total_parts > 0 THEN "loop" ELSE "done" ]
    /\ UNCHANGED << decode, screen, tasks, widget >>
    /\ UNCHANGED << genVars, loadVars, pollVars, capVars >>

\* Lines 472-495: one pass of `for part in range(total_parts)`.
Dispatch ==
    /\ send.at = "loop"
    /\ LET payload == [ width |-> send.img.width, height |-> send.img.height,
                        part |-> send.part, total_parts |-> send.total_parts,
                        status |-> IF EmptyBBox(send.img) THEN "error" ELSE "success",
                        data |-> Hex(Chunk(send.img.bytes, send.part, send.max_data_size)) ]
       IN  send' = [ send EXCEPT !.messages = Append(@, payload),
                                 !.part = @ + 1,
                                 !.at = IF send.part + 1 < send.total_parts THEN "loop"
                                        ELSE "done" ]
    /\ UNCHANGED << decode, screen, tasks, widget >>
    /\ UNCHANGED << genVars, loadVars, pollVars, capVars >>

\* The pixels generate() returned, as _send_image builds the image of them
\* (lines 398-414), one pixel standing for all: the placeholder is zeros
\* throughout, a decoded result is not.
ResultImage(ret) ==
    [ width |-> 1, height |-> 1,
      bytes |-> IF ret.pixels = "zeros" THEN << 0, 0, 0, 0 >> ELSE << 18, 52, 86, 255 >> ]

\* setup.py lines 242-248: generate() has returned pixels and a size to
\* _generate_async, which hands them to _send_image.
SendResult ==
    /\ last.ret.kind = "pixels"
    /\ send.at \in { "idle", "done" }
    /\ IF "of" \in DOMAIN send THEN send.of # last ELSE TRUE
    /\ \E metadata_size \in MetadataSizes :
          send' = NewSend(ResultImage(last.ret), MaxMessageSize, metadata_size) @@ [ of |-> last ]
    /\ UNCHANGED << decode, screen, tasks, widget >>
    /\ UNCHANGED << genVars, loadVars, pollVars, capVars >>

-----------------------------------------------------------------------------
(* _on_viewport_captured: a depth buffer (R32_SFLOAT) made into an image *)

\* A float32 sample: a depth in scene units (val), a magnitude in units of
\* 1e34, far beyond every depth (big), an infinity (inf, v its sign) or NaN.
Val(n) == [ kind |-> "val", v |-> n ]
Big(k) == [ kind |-> "big", v |-> k ]
PosInf == [ kind |-> "inf", v |-> 1 ]
NegInf == [ kind |-> "inf", v |-> 0 - 1 ]
NaN    == [ kind |-> "nan", v |-> 0 ]

\* 3.402e38 in units of 1e34 (lines 131, 133).
InfThreshold == 34020

\* The order of the floats; every comparison with NaN is false.
Tier(x) == CASE x.kind = "inf" -> 2 * x.v
             [] x.kind = "big" -> IF x.v < 0 THEN 0 - 1 ELSE 1
             [] OTHER -> 0
Leq(x, y) ==
    /\ x.kind # "nan" /\ y.kind # "nan"
    /\ Tier(x) < Tier(y) \/ (Tier(x) = Tier(y) /\ x.v <= y.v)
Less(x, y) == Leq(x, y) /\ x # y

Neg(x) == IF x.kind = "nan" THEN x ELSE [ x EXCEPT !.v = 0 - @ ]
IsFinite(x) == x.kind \in { "val", "big" }

\* Lines 131-134: the samples at or beyond the threshold become NaN.
Masked(x) ==
    IF Leq(x, Big(0 - InfThreshold)) \/ Leq(Big(InfThreshold), x) THEN NaN ELSE x

\* Lines 169-171: the absolute range of the normalization.
DepthMax == 0 - 200
DepthMin == DepthMax - 400

\* Lines 167, 171, 188: np.where, np.clip, * 255 and astype(np.uint8) for one
\* sample of the flipped array.
Pixel(x) ==
    LET clean == IF IsFinite(x) THEN x ELSE Val(0)
    IN  IF clean.kind = "big" THEN (IF clean.v < 0 THEN 0 ELSE 255)
        ELSE IF clean.v <= DepthMin THEN 0
        ELSE IF clean.v >= DepthMax THEN 255
        ELSE ((clean.v - DepthMin) * 255) \div (DepthMax - DepthMin)

\* Lines 145-188: the pixels of final_depth * 255 as uint8.
FinalDepth(samples) ==
    LET depth_array == [ i \in 1..Len(samples) |-> Neg(Masked(samples[i])) ]
        valid_depths == { i \in 1..Len(samples) :
                            IsFinite(depth_array[i]) /\ Less(depth_array[i], Val(0)) }
    IN  IF valid_depths # { }
        THEN [ i \in 1..Len(samples) |-> Pixel(depth_array[i]) ]
        ELSE [ i \in 1..Len(samples) |-> 255 ]

\* Line 127: np_array.squeeze() of an array of shape (height, width, 1)
\* drops every axis of length one.
Squeeze(height, width) == SelectSeq(<< height, width >>, LAMBDA n : n > 1)

\* The callback is called with a buffer of MaxSamples samples at most.
MaxSamples == 4
DepthSamples ==
    { Val(0 - 400), Val(150), Big(InfThreshold - 1), Big(InfThreshold),
      Big(0 - InfThreshold), PosInf, NegInf }
DepthBuffers ==
    { [ at |-> "call", height |-> height, width |-> width, samples |-> samples ] :
        << height, width, samples >> \in
            { t \in (1..MaxSamples) \X (1..MaxSamples) \X
                     UNION { [ 1..n -> DepthSamples ] : n \in 1..MaxSamples } :
                t[1] * t[2] = Len(t[3]) } }

\* Lines 126-189 and 232-236 for a depth buffer.  Image.fromarray takes
\* the size of the image from the shape of the array: (shape[1], shape[0])
\* of two axes, (1, shape[0]) of one, and raises IndexError for an array
\* without axes, which the handler of line 232 logs.
DecodeDepth ==
    /\ decode.at = "call"
    /\ LET shape == Squeeze(decode.height, decode.width)
           pixels == FinalDepth(decode.samples)
       IN  decode' =
             IF Len(shape) = 0
             THEN [ decode EXCEPT !.at = "logged" ] @@ [ exc |-> "IndexError" ]
             ELSE [ decode EXCEPT !.at = "done" ] @@
                  [ im |-> [ width |-> IF Len(shape) = 1 THEN 1 ELSE shape[2],
                             height |-> shape[1], pixels |-> pixels ] ]
    /\ UNCHANGED << send, screen, tasks, widget >>
    /\ UNCHANGED << genVars, loadVars, pollVars, capVars >>

-----------------------------------------------------------------------------
(* Initial states and specifications *)

\* The files the model is constructed with (DEFAULT_WORKFLOW).
StartFiles == { DefaultFile, FloatFile, UnboundFile }

GenInit(workflows) ==
    /\ busy = FALSE
    /\ comfy_parameters \in workflows
    /\ workflow \in { file \in StartFiles : LoadedParameters(file) = comfy_parameters }
    /\ load_exc = "none"
    /\ cleared = [ by |-> "none", names |-> { } ]
    /\ comfy_json = TemplateOf(comfy_parameters)
    /\ parameters = InitParameters(comfy_parameters)
    /\ viewport_buffers = EmptyDict
    /\ pc = [ c \in Callers |-> "idle" ]
    /\ frame = [ c \in Callers |-> IdleFrame ]
    /\ last = [ ret |-> RetUnset, exc |-> "none", screen |-> "notrun",
                guard |-> "none", n_post |-> 0, n_history |-> 0, n_view |-> 0 ]

PollIdle ==
    /\ poll = [ f |-> [ NewPoll(FALSE) EXCEPT !.status = "idle" ], hist |-> << >> ]
    /\ upcoming = [ kind |-> "error", outputs |-> << >> ]

PollInit ==
    /\ poll \in { [ f |-> NewPoll(a), hist |-> << >> ] : a \in BOOLEAN }
    /\ upcoming \in Responses

\* No run of the capture has begun.
CapRest ==
    /\ render_vars = << >>
    /\ backdrop = "none"
    /\ cap_buffers = EmptyDict
    /\ cap_pc = [ r \in Runs |-> "idle" ]
    /\ cap_i = [ r \in Runs |-> 1 ]
    /\ cap_events = [ r \in Runs |-> << >> ]
    /\ cap_hist = [ r \in Runs |-> NewHist ]

AllInherited == [ q \in Prims |-> "inherited" ]

\* The visibility attributes when the first run begins.
Stages ==
    { AllInherited,
      [ AllInherited EXCEPT ![Prop] = "invisible" ],
      [ AllInherited EXCEPT ![LakeView] = "invisible" ] }

CapIdle ==
    /\ stage = AllInherited
    /\ capture_types = << >>
    /\ CapRest

CapInit ==
    /\ stage \in Stages
    /\ capture_types \in Plans
    /\ CapRest

\* No call of _send_image or of the depth decoding has begun.
SendIdle == send = [ NewSend([ width |-> 0, height |-> 0, bytes |-> << >> ], 0, 0) EXCEPT !.at = "idle" ]
DecodeIdle == decode = [ at |-> "idle" ]
ScreenIdle == screen = [ at |-> "idle" ]
\* No event has been handled for run r.
NoTask == [ at |-> "none", event |-> [ null |-> TRUE, payload |-> EmptyDict ],
            handled |-> EmptyDict ]
TasksIdle == tasks = [ r \in Runs |-> NoTask ]

\* ---- AIViewportWidgetExtension (extension.py)

\* The two windows of the extension.
WindowKinds == { "input", "output" }

\* The windows that may be made of one kind; a window is its number, None
\* is 0.
MaxWindows == 3
None == 0

\* on_startup, lines 33-57: both windows are shown, which makes the first
\* window of each kind.  of: the window self._input_window refers to;
\* made: how many were made; visible, destroyed: the windows that are;
\* pending: the destroy tasks that await the next update, each with the
\* window whose close started it and the window self._input_window referred
\* to then; menu: the value the extension gave the menu item last.
Started ==
    [ of |-> 1, made |-> 1, visible |-> { 1 }, destroyed |-> { }, pending |-> { },
      menu |-> TRUE ]
WidgetIdle == widget = [ k \in WindowKinds |-> Started ]
AuxIdle == SendIdle /\ DecodeIdle /\ ScreenIdle /\ TasksIdle /\ WidgetIdle

\* The orchestrator: the callers of generate() and of the parameter store.
Init == GenInit(Workflows) /\ PollIdle /\ CapIdle /\ AuxIdle

Next ==
    \/ \E c \in Callers : GenerateBusy(c)
    \/ \E c \in Callers : \E kwargs \in Overrides : GenerateStart(c, kwargs)
    \/ \E c \in Callers : \E accepted \in BOOLEAN : Submit(c, accepted)
    \/ \E c \in Callers : \E resp \in GenResponses : Poll(c, resp)
    \/ \E name \in { "prompt", "RGB", "cfg" } : \E value \in WidgetValues(name) :
          SetParameters(name, value)
    \/ \E buffers \in BufferMaps : UpdateViewportBuffers(buffers)
    \/ ResetParameters

Spec == Init /\ [][Next]_vars

\* _get_images on its own.
InitPoll == GenInit({ DefaultWorkflow }) /\ PollInit /\ CapIdle /\ AuxIdle

NextPoll ==
    \/ \E a \in BOOLEAN : GetImagesCall(a)
    \/ GetImagesStep

SpecPoll == InitPoll /\ [][NextPoll]_vars

\* The orchestrator with a workflow whose .spec file has an entry that no
\* node matches.
InitUnbound == GenInit({ LoadedParameters(UnboundFile) }) /\ PollIdle /\ CapIdle /\ AuxIdle

SpecUnbound == InitUnbound /\ [][Next]_vars

\* Loading the workflows, with the parameter store.
InitLoad == GenInit({ DefaultWorkflow }) /\ PollIdle /\ CapIdle /\ AuxIdle

NextLoad ==
    \/ \E file \in WorkflowFiles : LoadWorkflow(file)
    \/ \E name \in { "prompt", "RGB", "cfg" } : \E value \in WidgetValues(name) :
          SetParameters(name, value)
    \/ ResetParameters

SpecLoad == InitLoad /\ [][NextLoad]_vars

\* The parameter store with its callers: the mode menu, the parameter
\* widgets and the setup extension.
NextStore ==
    \/ \E file \in StartFiles \cup { NoFile } : LoadWorkflow(file)
    \/ \E name \in { "prompt", "RGB", "cfg" } : \E value \in WidgetValues(name) :
          SetParameters(name, value)
    \/ \E name \in PromptNames : \E value \in PromptValues : SetParameters(name, value)
    \/ ResetParameters

SpecStore == InitLoad /\ [][NextStore]_vars

\* The capture controller on its own.
InitCapture == GenInit({ DefaultWorkflow }) /\ PollIdle /\ CapInit /\ AuxIdle

NextCapture ==
    \/ \E r \in Runs : CaptureStart(r)
    \/ \E r \in Runs : Apply(r)
    \/ \E r \in Runs : WaitBefore(r)
    \/ \E r \in Runs : \E scheduled \in BOOLEAN : ScheduleCapture(r, scheduled)
    \/ \E r \in Runs : \E i \in 1..Len(capture_types) : \E decoded \in BOOLEAN :
          OnViewportCaptured(r, i, decoded)
    \/ \E r \in Runs : CaptureResult(r)
    \/ \E r \in Runs : CaptureFails(r)
    \/ \E r \in Runs : Revert(r)
    \/ \E r \in Runs : WaitAfter(r)
    \/ \E r \in Runs : BackdropLakeView(r)
    \/ \E r \in Runs : BackdropLookout(r)

SpecCapture == InitCapture /\ [][NextCapture]_vars


\* The pipeline of the setup extension (setup.py:233-242): the capture, the
\* hand-over of its buffer map to the model, and generate().
PipelinePlans ==
    { << EntryRGB >>, << Entry("LdrColor", "CAVA(image): RGB", Prop, "hideme") >> }

InitPipeline ==
    /\ GenInit({ DefaultWorkflow }) /\ PollIdle
    /\ stage = AllInherited /\ capture_types \in PipelinePlans /\ CapRest /\ AuxIdle

\* A step of run r of the capture.
CaptureStep(r) ==
    \/ CaptureStart(r)
    \/ Apply(r)
    \/ WaitBefore(r)
    \/ \E scheduled \in BOOLEAN : ScheduleCapture(r, scheduled)
    \/ \E decoded \in BOOLEAN : OnViewportCaptured(r, 1, decoded)
    \/ CaptureResult(r)
    \/ CaptureFails(r)
    \/ Revert(r)
    \/ WaitAfter(r)
    \/ BackdropLakeView(r)
    \/ BackdropLookout(r)

\* The answers of the backend to the polling of the pipeline's job.
PipelineResponses ==
    { resp \in GenResponses :
        resp.kind = "absent" \/ resp.outputs \in { << Node(<<ImgO>>) >>, << Node(<<ImgX>>) >> } }

NextPipeline ==
    \/ CaptureStep("first")
    \/ UpdateViewportBuffers(cap_buffers)
    \/ \E c \in Callers : GenerateBusy(c)
    \/ \E c \in Callers : GenerateStart(c, EmptyDict)
    \/ \E c \in Callers : \E accepted \in BOOLEAN : Submit(c, accepted)
    \/ \E c \in Callers : \E resp \in PipelineResponses : Poll(c, resp)

SpecPipeline == InitPipeline /\ [][NextPipeline]_vars

\* ---- SetupExtension._on_generate (setup.py lines 209-251)

\* prompt_names (line 211), two names standing for the five: one that the
\* loaded specification has, one that it has not.
prompt_names == << "prompt", "style" >>

\* The queryComfyUI events: None, payloads with every key, payloads that
\* lack a key.  A prompt is a text or the empty string.
EventTexts == { Str(TextOk), Str(TextImage), Str(<< >>) }
EventPayloads ==
    { [ k \in { "prompt", "style" } |-> IF k = "prompt" THEN p ELSE Str(TextOk) ] :
        p \in EventTexts }
    \cup { [ k \in { "prompt" } |-> Str(TextImage) ] }
Events ==
    { [ null |-> TRUE, payload |-> EmptyDict ] }
    \cup { [ null |-> FALSE, payload |-> p ] : p \in EventPayloads }

\* Lines 213-220: the event is there and its payload has every key.
Accepts(event) ==
    /\ ~ event.null
    /\ \A i \in 1..Len(prompt_names) : prompt_names[i] \in DOMAIN event.payload

\* Line 225: `if prompt_data and prompt_data != ""`.
SetsPromptAlways(prompt_data) == TRUE
SetsPrompt(prompt_data) == prompt_data # Str(<< >>)

\* Lines 223-226: the store after the prompts of the payload have been set.
RECURSIVE UpdateSpec(_, _, _)
UpdateSpec(params, payload, i) ==
    IF i > Len(prompt_names) THEN params
    ELSE LET prompt_name == prompt_names[i]
             prompt_data == payload[prompt_name]
         IN  UpdateSpec(IF SetsPrompt(prompt_data)
                        THEN Update(params, [ k \in { prompt_name } |-> prompt_data ])
                        ELSE params,
                        payload, i + 1)

\* Lines 448-464: the metadata of a message with status "error" is shorter
\* than with status "success".
MetadataSizeOf(img) == IF EmptyBBox(img) THEN 3 ELSE 4

\* The answers of the backend to the polling of a task's job: no entry yet,
\* or one output image.
EventResponses ==
    { resp \in GenResponses : resp.kind = "absent" \/ resp.outputs = << Node(<<ImgO>>) >> }

\* The event loop can run the task of run r, or a handler: no other task is
\* between the end of its capture and the end of its _send_image, where
\* nothing awaits (generate() blocks, see AwaitPoints).
Runnable(r) ==
    /\ \A o \in Runs \ { r } : tasks[o].at \notin { "generate", "called" }
    /\ send.at \notin { "call", "loop" }

\* Lines 209-251: the handler of a queryComfyUI event.  An event that is
\* None or lacks a key is logged and dropped; otherwise the prompts are set
\* and the task _generate_async is started.  tasks[r].handled remembers the
\* store as the handler left it.
OnGenerate(r, event) ==
    /\ tasks[r].at = "none"
    /\ Runnable(r)
    /\ IF Accepts(event)
       THEN /\ parameters' = UpdateSpec(parameters, event.payload, 1)
            /\ tasks' = [ tasks EXCEPT ![r] = [ at |-> "suppress", event |-> event,
                                                handled |-> parameters' ] ]
       ELSE /\ tasks' = [ tasks EXCEPT ![r] = [ at |-> "ignored", event |-> event,
                                                handled |-> parameters ] ]
            /\ UNCHANGED parameters
    /\ UNCHANGED << busy, comfy_parameters, comfy_json, viewport_buffers, pc, frame, last >>
    /\ UNCHANGED << loadVars, pollVars, capVars, send, decode, screen, widget >>

\* Lines 229-230: suppress.begin() has its capture of the viewport.
SuppressBegin(r) ==
    /\ tasks[r].at = "suppress"
    /\ Runnable(r)
    /\ tasks' = [ tasks EXCEPT ![r].at = "capture" ]
    /\ UNCHANGED << genVars, loadVars, pollVars, capVars, send, decode, screen, widget >>

\* Line 233: a step of the task's capture_viewport_async.
TaskCapture(r) ==
    /\ tasks[r].at = "capture"
    /\ Runnable(r)
    /\ CaptureStep(r)

\* Line 233: capture_viewport_async raised, and the task ends with it.
TaskCaptureFailed(r) ==
    /\ tasks[r].at = "capture"
    /\ Runnable(r)
    /\ cap_pc[r] = "failed"
    /\ tasks' = [ tasks EXCEPT ![r].at = "failed" ]
    /\ UNCHANGED << genVars, loadVars, pollVars, capVars, send, decode, screen, widget >>

\* Lines 236-239: the captured buffers are handed to the model
\* (update_viewport_buffers copies the dictionary) and suppress.end(), which
\* awaits nothing, is run.
TaskUpdateBuffers(r) ==
    /\ tasks[r].at = "capture"
    /\ Runnable(r)
    /\ cap_pc[r] = "done"
    /\ viewport_buffers' = cap_buffers
    /\ tasks' = [ tasks EXCEPT ![r].at = "generate" ]
    /\ UNCHANGED << busy, comfy_parameters, comfy_json, parameters, pc, frame, last >>
    /\ UNCHANGED << loadVars, pollVars, capVars, send, decode, screen, widget >>

\* Line 242: the task calls generate() with no keyword argument.
TaskGenerate(r) ==
    /\ tasks[r].at = "generate"
    /\ GenerateBody("setup", EmptyDict)
    /\ tasks' = [ tasks EXCEPT ![r].at = "called" ]
    /\ UNCHANGED << loadVars, pollVars, capVars, send, decode, screen, widget >>

\* Lines 242-248: generate() has returned.  A return of None cannot be
\* unpacked into uplifted_image, size (TypeError, the task ends with it);
\* pixels and a size go to _send_image.
TaskEnds(r) ==
    /\ tasks[r].at = "called"
    /\ pc["setup"] = "idle"
    /\ IF last.ret.kind = "pixels"
       THEN /\ tasks' = [ tasks EXCEPT ![r].at = "done" ]
            /\ send' = NewSend(ResultImage(last.ret), MaxMessageSize,
                               MetadataSizeOf(ResultImage(last.ret))) @@ [ of |-> last ]
       ELSE /\ tasks' = [ tasks EXCEPT ![r].at = "TypeError" ]
            /\ UNCHANGED send
    /\ UNCHANGED << genVars, loadVars, pollVars, capVars, decode, screen, widget >>

InitEvents ==
    /\ GenInit({ DefaultWorkflow }) /\ PollIdle
    /\ stage = AllInherited /\ capture_types = << EntryRGB >> /\ CapRest
    /\ AuxIdle

NextEvents ==
    \/ \E r \in Runs : \E event \in Events : OnGenerate(r, event)
    \/ \E r \in Runs : SuppressBegin(r)
    \/ \E r \in Runs : TaskCapture(r)
    \/ \E r \in Runs : TaskCaptureFailed(r)
    \/ \E r \in Runs : TaskUpdateBuffers(r)
    \/ \E r \in Runs : TaskGenerate(r)
    \/ \E accepted \in BOOLEAN : Submit("setup", accepted)
    \/ \E resp \in EventResponses : Poll("setup", resp)
    \/ \E r \in Runs : TaskEnds(r)
    \/ SendImageCall
    \/ Dispatch

SpecEvents == InitEvents /\ [][NextEvents]_vars

\* ---- SetupExtension._on_generate_batch (setup.py lines 253-348)

\* The items of a batch, in list order; the capture of an item is the run of
\* capture_viewport_async of the same name.
batch_items == << "first", "second" >>

\* The parameter dictionaries of the items: with or without "_output", with
\* or without a prompt, with or without a backdrop variant.
BatchParams ==
    { [ k \in { "_output", "prompt" } |-> IF k = "prompt" THEN Str(TextImage) ELSE Str(TextOk) ],
      [ k \in { "_output", "setBackdropVariant" } |->
            IF k = "_output" THEN Str(TextOk) ELSE "Lookout" ],
      [ k \in { "prompt" } |-> Str(TextOk) ] }

\* Lines 341-345: an item is over when _generate_single_async has returned
\* or has raised an Exception, which the loop logs.
ItemOverWhenSaved(at) == at = "saved"
ItemOver(at) == at \in { "saved", "failed" }

\* Line 340: the loop is at item r: every item before it is over, and it
\* is not.
LoopAt(r) ==
    \E i \in 1..Len(batch_items) :
        /\ batch_items[i] = r
        /\ \A j \in 1..(i - 1) : ItemOver(tasks[batch_items[j]].at)
        /\ ~ ItemOver(tasks[r].at)

\* Lines 317-320: the prompts among the keys of the item are set, empty or
\* not.
BatchPrompts(params, item) ==
    IF "prompt" \in DOMAIN item
    THEN Update(params, [ k \in { "prompt" } |-> item["prompt"] ])
    ELSE params

\* Line 348: the handler starts the task _generate_batch_async with the list.
OnGenerateBatch(list) ==
    /\ \A r \in Runs : tasks[r].at = "none"
    /\ tasks' = [ r \in Runs |->
                    [ at |-> "queued",
                      event |-> [ null |-> FALSE,
                                  payload |-> list[CHOOSE i \in 1..Len(batch_items) :
                                                      batch_items[i] = r] ],
                      handled |-> EmptyDict ] ]
    /\ UNCHANGED << genVars, loadVars, pollVars, capVars, send, decode, screen, widget >>

\* Lines 301-320: the item's dictionary is written to the .json file beside
\* its output (KeyError without "_output", OSError when the file cannot be
\* written), its variants are pushed to the message bus and its prompts are
\* set.  Nothing in these lines suspends the task.
BatchItemBegin(r, written) ==
    /\ tasks[r].at = "queued"
    /\ LoopAt(r)
    /\ LET item == tasks[r].event.payload
       IN  IF "_output" \in DOMAIN item /\ written
           THEN /\ backdrop' = IF "setBackdropVariant" \in DOMAIN item
                               THEN item["setBackdropVariant"] ELSE backdrop
                /\ parameters' = BatchPrompts(parameters, item)
                /\ tasks' = [ tasks EXCEPT ![r].at = "capture", ![r].handled = parameters' ]
           ELSE /\ tasks' = [ tasks EXCEPT ![r].at = "failed" ]
                /\ UNCHANGED << backdrop, parameters >>
    /\ UNCHANGED << busy, comfy_parameters, comfy_json, viewport_buffers, pc, frame, last >>
    /\ UNCHANGED << stage, render_vars, capture_types, cap_buffers, cap_pc, cap_i,
                    cap_events, cap_hist >>
    /\ UNCHANGED << loadVars, pollVars, send, decode, screen, widget >>

\* Line 323: a step of the item's capture_viewport_async.
BatchCapture(r) ==
    /\ tasks[r].at = "capture"
    /\ LoopAt(r)
    /\ CaptureStep(r)

\* Line 323: capture_viewport_async raised.
BatchCaptureFailed(r) ==
    /\ tasks[r].at = "capture"
    /\ LoopAt(r)
    /\ cap_pc[r] = "failed"
    /\ tasks' = [ tasks EXCEPT ![r].at = "failed" ]
    /\ UNCHANGED << genVars, loadVars, pollVars, capVars, send, decode, screen, widget >>

\* Line 324: the captured buffers are handed to the model.
BatchUpdateBuffers(r) ==
    /\ tasks[r].at = "capture"
    /\ LoopAt(r)
    /\ cap_pc[r] = "done"
    /\ viewport_buffers' = cap_buffers
    /\ tasks' = [ tasks EXCEPT ![r].at = "generate" ]
    /\ UNCHANGED << busy, comfy_parameters, comfy_json, parameters, pc, frame, last >>
    /\ UNCHANGED << loadVars, pollVars, capVars, send, decode, screen, widget >>

\* Line 327: the item calls generate() with no keyword argument.
BatchGenerate(r) ==
    /\ tasks[r].at = "generate"
    /\ LoopAt(r)
    /\ GenerateBody("setup", EmptyDict)
    /\ tasks' = [ tasks EXCEPT ![r].at = "called" ]
    /\ UNCHANGED << loadVars, pollVars, capVars, send, decode, screen, widget >>

\* Lines 327-336: generate() has returned.  A return of None cannot be
\* unpacked (TypeError); pixels and a size are made an image, which is
\* saved, or cannot be (OSError).
BatchItemEnds(r, saved) ==
    /\ tasks[r].at = "called"
    /\ LoopAt(r)
    /\ pc["setup"] = "idle"
    /\ tasks' = [ tasks EXCEPT ![r].at =
                    IF last.ret.kind = "pixels" /\ saved THEN "saved" ELSE "failed" ]
    /\ UNCHANGED << genVars, loadVars, pollVars, capVars, send, decode, screen, widget >>

InitBatch ==
    /\ GenInit({ DefaultWorkflow }) /\ PollIdle
    /\ stage = AllInherited /\ capture_types = << EntryRGB >> /\ CapRest
    /\ AuxIdle

NextBatch ==
    \/ \E list \in [ 1..Len(batch_items) -> BatchParams ] : OnGenerateBatch(list)
    \/ \E r \in Runs : \E written \in BOOLEAN : BatchItemBegin(r, written)
    \/ \E r \in Runs : BatchCapture(r)
    \/ \E r \in Runs : BatchCaptureFailed(r)
    \/ \E r \in Runs : BatchUpdateBuffers(r)
    \/ \E r \in Runs : BatchGenerate(r)
    \/ \E accepted \in BOOLEAN : Submit("setup", accepted)
    \/ \E resp \in EventResponses : Poll("setup", resp)
    \/ \E r \in Runs : \E saved \in BOOLEAN : BatchItemEnds(r, saved)

SpecBatch == InitBatch /\ [][NextBatch]_vars

\* ---- The windows of AIViewportWidgetExtension (extension.py lines 84-145)

\* Lines 98-103 / 105-110: the visibility of window w of kind k has changed
\* to `visible`.  The menu item is set, and for a window that was hidden a
\* task _destroy_input_window_async is started.
VisibilityChanged(wk, w, visible) ==
    [ wk EXCEPT !.menu = visible,
                !.pending = IF visible THEN @
                            ELSE @ \cup { [ closed |-> w, current |-> wk.of ] } ]

\* Lines 84-89 / 91-96, after the await: the window that self._input_window
\* refers to now, if any, is destroyed and the reference is dropped.
DestroyWindow(wk) ==
    IF wk.of # None
    THEN [ wk EXCEPT !.destroyed = @ \cup { wk.of }, !.visible = @ \ { wk.of },
                     !.of = None, !.pending = { } ]
    ELSE [ wk EXCEPT !.pending = { } ]

\* Lines 112-128 / 130-145: show_input_window(menu, value).  With value, a
\* new window is made and self._input_window refers to it, whatever it
\* referred to before; without, the window referred to is hidden, which
\* calls its visibility callback.
ShowWindow(k, value) ==
    /\ IF value
       THEN /\ widget[k].made < MaxWindows
            /\ widget' = [ widget EXCEPT ![k].made = @ + 1,
                                         ![k].of = widget[k].made + 1,
                                         ![k].visible = @ \cup { widget[k].made + 1 } ]
       ELSE /\ widget[k].of # None
            /\ widget' = [ widget EXCEPT ![k] =
                             IF widget[k].of \in widget[k].visible
                             THEN VisibilityChanged([ @ EXCEPT !.visible = @ \ { widget[k].of } ],
                                                    widget[k].of, FALSE)
                             ELSE @ ]
    /\ UNCHANGED << genVars, loadVars, pollVars, capVars, send, decode, screen, tasks >>

\* The user presses "X" on a window: it is hidden and its visibility
\* callback is called.
CloseWindow(k, w) ==
    /\ w \in widget[k].visible
    /\ widget' = [ widget EXCEPT ![k] =
                     VisibilityChanged([ @ EXCEPT !.visible = @ \ { w } ], w, FALSE) ]
    /\ UNCHANGED << genVars, loadVars, pollVars, capVars, send, decode, screen, tasks >>

\* The next update of the application: every destroy task that awaits it
\* is resumed (line 86 / 93).
NextUpdate ==
    /\ \E k \in WindowKinds : widget[k].pending # { }
    /\ widget' = [ k \in WindowKinds |->
                     IF widget[k].pending # { } THEN DestroyWindow(widget[k]) ELSE widget[k] ]
    /\ UNCHANGED << genVars, loadVars, pollVars, capVars, send, decode, screen, tasks >>

InitWidget == GenInit({ DefaultWorkflow }) /\ PollIdle /\ CapIdle /\ AuxIdle

NextWidget ==
    \/ \E k \in WindowKinds : \E value \in BOOLEAN : ShowWindow(k, value)
    \/ \E k \in WindowKinds : \E w \in 1..MaxWindows : CloseWindow(k, w)
    \/ NextUpdate

SpecWidget == InitWidget /\ [][NextWidget]_vars

\* The setup extension's generation with its report to the GUI layer.
InitReport == GenInit({ DefaultWorkflow }) /\ PollIdle /\ CapIdle /\ AuxIdle

NextReport ==
    \/ \E value \in WidgetValues("prompt") : SetParameters("prompt", value)
    \/ \E buffers \in BufferMaps : UpdateViewportBuffers(buffers)
    \/ GenerateStart("setup", EmptyDict)
    \/ \E accepted \in BOOLEAN : Submit("setup", accepted)
    \/ \E resp \in PipelineResponses : Poll("setup", resp)
    \/ SendResult
    \/ SendImageCall
    \/ Dispatch

SpecReport == InitReport /\ [][NextReport]_vars

\* _send_image on its own.
InitSend ==
    /\ GenInit({ DefaultWorkflow }) /\ PollIdle /\ CapIdle
    /\ send \in { NewSend(img, max_message_size, metadata_size) :
                     img \in SentImages, max_message_size \in 0..MaxMessageSize,
                     metadata_size \in MetadataSizes }
    /\ DecodeIdle /\ ScreenIdle /\ TasksIdle /\ WidgetIdle

\* The decoding of a depth buffer on its own.
InitDecode ==
    /\ GenInit({ DefaultWorkflow }) /\ PollIdle /\ CapIdle
    /\ SendIdle /\ ScreenIdle /\ TasksIdle /\ WidgetIdle
    /\ decode \in DepthBuffers

NextDecode == DecodeDepth

SpecDecode == InitDecode /\ [][NextDecode]_vars

\* _is_safe on its own, over every text of MaxTextLen characters or fewer.
InitScreen ==
    /\ GenInit({ DefaultWorkflow }) /\ PollIdle /\ CapIdle
    /\ SendIdle /\ DecodeIdle /\ TasksIdle /\ WidgetIdle
    /\ screen \in { [ at |-> "call", text |-> text ] : text \in ScreenedTexts }

NextScreen == IsSafeCall

SpecScreen == InitScreen /\ [][NextScreen]_vars

NextSend == SendImageCall \/ Dispatch

SpecSend == InitSend /\ [][NextSend]_vars

\* The orchestrator with the calls in flight going on: a backend request
\* returns or raises, and the call that issued it takes its next step.
SubmitStep(c) == \E accepted \in BOOLEAN : Submit(c, accepted)
PollStep(c)   == \E resp \in GenResponses : Poll(c, resp)

InitFair == GenInit({ DefaultWorkflow }) /\ PollIdle /\ CapIdle /\ AuxIdle

\* The steps of generate() and the buffer hand-over that precedes it; the
\* prompt a call works on varies through its keyword arguments.
NextFair ==
    \/ \E c \in Callers : GenerateBusy(c)
    \/ \E c \in Callers : \E kwargs \in Overrides : GenerateStart(c, kwargs)
    \/ \E c \in Callers : \E accepted \in BOOLEAN : Submit(c, accepted)
    \/ \E c \in Callers : \E resp \in GenResponses : Poll(c, resp)
    \/ \E buffers \in BufferMaps : UpdateViewportBuffers(buffers)

FairSpec ==
    /\ InitFair /\ [][NextFair]_vars
    /\ \A c \in Callers : WF_vars(SubmitStep(c)) /\ WF_vars(PollStep(c))

\* The orchestrator on the event loop.  The tasks share one thread: a task
\* runs until it awaits something that is not ready.  AwaitPoints are the
\* positions of generate() at which its body awaits; lines 248-309 hold no
\* await: urlopen (lines 187, 193, 286) and time.sleep (line 228) block the
\* thread.
AwaitPoints == { }

\* The event loop can run task c: every other task is at rest or suspended.
OnLoop(c) == \A d \in Callers \ { c } : pc[d] = "idle" \/ pc[d] \in AwaitPoints

\* No task is in the middle of a step.
LoopFree == \A c \in Callers : pc[c] = "idle" \/ pc[c] \in AwaitPoints

InitLoop == GenInit(Workflows) /\ PollIdle /\ CapIdle /\ AuxIdle

NextLoop ==
    \/ \E c \in Callers : \E kwargs \in Overrides : OnLoop(c) /\ GenerateStart(c, kwargs)
    \/ \E c \in Callers : \E accepted \in BOOLEAN : OnLoop(c) /\ Submit(c, accepted)
    \/ \E c \in Callers : \E resp \in GenResponses : OnLoop(c) /\ Poll(c, resp)
    \/ \E name \in { "prompt", "cfg" } : \E value \in WidgetValues(name) :
          LoopFree /\ SetParameters(name, value)
    \/ \E buffers \in BufferMaps : LoopFree /\ UpdateViewportBuffers(buffers)

SpecLoop == InitLoop /\ [][NextLoop]_vars

-----------------------------------------------------------------------------
(* Claims about generate() *)

InFlight == { c \in Callers : pc[c] # "idle" }

NoRequests(r) == r.n_post = 0 /\ r.n_history = 0 /\ r.n_view = 0

\* C1: while a generate() call is in flight, a further call returns None at
\* once without any backend request, so at most one call (and so at most one
\* job) is in flight at any time.
C1_SingleFlight ==
    /\ Cardinality(InFlight) <= 1
    /\ Cardinality({ c \in Callers : pc[c] = "poll" }) <= 1
    /\ last.guard = "busy" => (last.ret = RetNone /\ NoRequests(last))
    /\ InFlight # {} => busy

\* A call was turned away by the guard while a job is being polled.
C1_Witness == last.guard = "busy" /\ \E c \in Callers : pc[c] = "poll"

\* C2: when a call that had set busy has returned, with a result, with the
\* placeholder or after an exception, busy is false and the guard lets the
\* next call pass.
C2_BusyReleased ==
    (InFlight = {}) => (~ busy /\ ~ Rejected(busy))

\* A call that had submitted its job ended with an exception, and busy is false.
C2_Witness ==
    /\ InFlight = {} /\ ~ busy
    /\ last.guard = "passed" /\ last.exc # "none" /\ last.n_post = 1

\* C3: a call whose texts the safety screen rejects returns the transparent
\* placeholder of size [1024, 1024] and issues no backend request.
C3_UnsafePlaceholder ==
    /\ last.screen = "unsafe" =>
          /\ last.ret = RetPlaceholder
          /\ last.ret.size = << 1024, 1024 >> /\ last.ret.pixels = "zeros"
          /\ NoRequests(last)
    /\ \A c \in InFlight : frame[c].screen # "unsafe"

C3_Witness == last.screen = "unsafe" /\ last.ret.kind = "pixels"

\* C4: no job is submitted whose text values, after the merge of the stored
\* values with the overrides of the call, the safety screen rejects.
C4_NoUnsafeJob ==
    \A c \in Callers :
        pc[c] = "poll" =>
            \A i \in 1..Len(comfy_parameters) :
                comfy_parameters[i].type = "string" =>
                    IsSafe(frame[c].request_data[comfy_parameters[i].control_id].str)

\* C5: generate() never raises to its caller; an exception raised in the
\* merge, the screening, the submission, the polling, an artifact fetch or the
\* decoding ends the call with None returned.
C5_NeverRaises ==
    /\ last.ret.kind # "raise"
    /\ last.exc # "none" => last.ret = RetNone

\* The polling of a call timed out and the caller got None.
C5_Witness == last.exc = "TimeoutError" /\ last.ret = RetNone

\* The edges of the state machine of one call; a call stays where it is
\* while another step is taken.
CallEdges ==
    { << "idle", "idle" >>, << "idle", "submit" >>, << "submit", "submit" >>,
      << "submit", "poll" >>, << "submit", "idle" >>, << "poll", "poll" >>,
      << "poll", "idle" >> }

\* C9: every generate() call terminates: it goes from idle through the
\* submission and the polling back to idle, with at most one job submission
\* and at most timeout / interval history fetches, and busy is false again.
C9_Terminates ==
    /\ \A c \in Callers : (pc[c] # "idle") ~> (pc[c] = "idle" /\ ~ busy)
    /\ [] (\A c \in Callers : frame[c].n_post <= 1 /\ frame[c].f.n_history <= NumTry)
    /\ [] (last.n_post <= 1 /\ last.n_history <= NumTry)
    /\ [][ \A c \in Callers : << pc[c], pc'[c] >> \in CallEdges ]_vars

\* A call has used up every attempt of the polling.
C9_Witness == last.n_post = 1 /\ last.n_history = NumTry /\ ~ busy

\* C31: while a call of generate() waits for the answer to a request or for
\* the poll interval, the event loop can run another task, and that task's
\* call of generate() finds busy set.
C31_SuspendsWhilePolling ==
    \A c \in Callers :
        pc[c] \in { "submit", "poll" } =>
            /\ busy
            /\ \E d \in Callers \ { c } : OnLoop(d) /\ pc[d] = "idle" /\ Rejected(busy)

\* C35: a call that the busy guard turns away leaves busy set and changes
\* nothing else of the orchestrator: not the specification, the template,
\* the store, the buffers, nor the call in flight.
C35_RejectionKeepsBusy ==
    [][ (last'.guard = "busy" /\ last' # last) =>
            /\ busy /\ busy'
            /\ UNCHANGED << comfy_parameters, comfy_json, parameters, viewport_buffers,
                            workflow, pc, frame >>
      ]_vars

\* A call was turned away after the job's POST, and the job is still polled
\* with busy set.
C35_Witness ==
    /\ last.guard = "busy" /\ busy
    /\ \E c \in Callers : pc[c] = "poll" /\ frame[c].n_post = 1

-----------------------------------------------------------------------------
(* Claims about _get_images *)

\* The well-formed entries of the "images" lists of an answer.
ListedImages(resp) ==
    UNION { { [ node |-> n, idx |-> i, image |-> resp.outputs[n].images[i] ] :
                i \in { j \in 1..Len(resp.outputs[n].images) : resp.outputs[n].images[j].keys } } :
            n \in { m \in 1..Len(resp.outputs) : resp.outputs[m].has_images } }

\* An attempt fails when the history request fails or the fetch of an image
\* the scan asks for fails.
AttemptFails(resp, allow_preview) ==
    \/ resp.kind # "history"
    \/ \E e \in ListedImages(resp) :
          /\ e.image.type = "output" \/ (allow_preview /\ e.image.type = "temp")
          /\ ~ e.image.fetch

CauseOf(resp) ==
    IF resp.kind = "error" THEN "URLError"
    ELSE IF resp.kind = "absent" THEN "KeyError" ELSE "HTTPError"

\* C6: the polling of one job issues at most timeout / interval history
\* requests; an attempt that fails and is not the last is followed by another
\* attempt, and a failure of the last attempt ends the polling with a
\* TimeoutError that carries the cause.
C6_BoundedPolling ==
    /\ poll.f.n_history = Len(poll.hist)
    /\ Len(poll.hist) <= NumTry
    /\ poll.f.status = "TimeoutError" => Len(poll.hist) = NumTry
    /\ \A k \in 1..Len(poll.hist) :
          AttemptFails(poll.hist[k], poll.f.allow_preview) =>
             IF k < NumTry
             THEN k < Len(poll.hist) \/ poll.f.status = "loop"
             ELSE poll.f.status = "TimeoutError" /\ poll.f.cause = CauseOf(poll.hist[k])

\* The last attempt failed after every earlier one had.
C6_Witness ==
    /\ poll.f.status = "TimeoutError" /\ Len(poll.hist) = NumTry
    /\ poll.hist[1].kind = "absent" /\ poll.hist[NumTry].kind = "error"

OnlyTemp(resp) ==
    /\ resp.kind = "history"
    /\ ListedImages(resp) # {}
    /\ \A e \in ListedImages(resp) : e.image.type = "temp"

ListsOutput(resp) ==
    /\ resp.kind = "history"
    /\ \E e \in ListedImages(resp) : e.image.type = "output" /\ e.image.fetch
    /\ ~ AttemptFails(resp, FALSE)

\* The backend's answer to the second history request, made or not.
SecondAnswer == IF Len(poll.hist) >= 2 THEN poll.hist[2] ELSE upcoming

\* C7: with allow_preview false, when the first answer lists only a temp
\* image and the second lists an output image, the polling goes on after the
\* first attempt and the image used is the output image of the second.
C7_OutputAfterPreview ==
    ( /\ ~ poll.f.allow_preview
      /\ poll.f.status \notin { "loop", "idle" }
      /\ Len(poll.hist) >= 1 /\ OnlyTemp(poll.hist[1])
      /\ ListsOutput(SecondAnswer) )
    => ( /\ poll.f.status = "return"
         /\ poll.f.output_images[1].try = 2
         /\ poll.f.output_images[1].type = "output" )

\* C8: with allow_preview set, the image recovered for a node that lists an
\* output image and a temp image is the output image, in either order: a
\* temp image is recovered only for a node that lists no output image.
C8_PrefersOutput ==
    \A k \in 1..Len(poll.f.output_images) :
        LET a == poll.f.output_images[k] IN
        a.type = "temp" =>
            ~ \E e \in ListedImages(poll.hist[a.try]) :
                  e.node = a.node /\ e.image.type = "output"

\* C36: the list _get_images returns holds only images of the final scan of
\* the history: none recovered by an attempt that then raised, and so no
\* image of the job twice.
C36_OnlyFinalScan ==
    poll.f.status = "return" =>
        LET images == poll.f.output_images
        IN  /\ \A k \in 1..Len(images) : images[k].try = poll.f.try_id + 1
            /\ \A j, k \in 1..Len(images) :
                  (images[j].node = images[k].node /\ images[j].idx = images[k].idx) => j = k

-----------------------------------------------------------------------------
(* Claims about capture_viewport_async *)

\* What run r did for entry i, in order.
PassOf(r, i) ==
    LET s == SelectSeq(cap_events[r], LAMBDA e : e.entry = i)
    IN  [ k \in 1..Len(s) |-> s[k].ev ]

IsPrefix(a, b) == Len(a) <= Len(b) /\ \A k \in 1..Len(a) : a[k] = b[k]

\* A pass with a visibility mutation, and a pass without one.
FullPass == << "apply", "wait", "request", "callback", "revert", "wait" >>
BarePass == << "request", "callback" >>

\* Run r has left entry i behind.
Passed(r, i) ==
    \/ i < cap_i[r]
    \/ cap_pc[r] \in { "backdrop", "backdrop_lookout", "done" }
    \/ \E k \in 1..Len(cap_events[r]) : cap_events[r][k].entry > i

\* C10: within one run the entries are processed in plan order; what is done
\* for an entry comes in the order apply, wait, one capture request, its
\* callback, revert, wait; and nothing is done for the next entry before the
\* pass of the previous one, its revert included, is complete.
C10_SequentialPlan ==
    \A r \in Runs :
        /\ \A k \in 1..(Len(cap_events[r]) - 1) :
              cap_events[r][k].entry <= cap_events[r][k + 1].entry
        /\ \A i \in 1..Len(capture_types) :
              LET pass == PassOf(r, i) IN
              /\ IsPrefix(pass, FullPass) \/ IsPrefix(pass, BarePass)
              /\ (Hidden(capture_types[i]) # { } /\ pass # << >>) => IsPrefix(pass, FullPass)
              /\ Passed(r, i) => pass \in { FullPass, BarePass }

\* A run over two entries that both change the visibility has returned.
C10_Witness ==
    \E r \in Runs :
        /\ cap_pc[r] = "done" /\ Len(capture_types) = 2
        /\ \A i \in 1..2 : Hidden(capture_types[i]) # { } /\ PassOf(r, i) = FullPass

\* C11: when the capture request or the wait for its result raises for an
\* entry whose policy has changed the visibility of prims, the revert of that
\* entry is done before the run ends.
C11_RevertAfterFailure ==
    \A r \in Runs :
        ( /\ cap_pc[r] = "failed"
          /\ Hidden(capture_types[cap_i[r]]) # { }
          /\ \E k \in 1..Len(cap_events[r]) : cap_events[r][k] = Event(cap_i[r], "apply") )
        => \E k \in 1..Len(cap_events[r]) : cap_events[r][k] = Event(cap_i[r], "revert")

\* C12: after the revert of an entry every prim has the visibility it had
\* before the entry's policy was applied (no other run being under way).
C12_RevertRestores ==
    \A r \in Runs :
        ( cap_pc[r] = "wait_after" /\ \A o \in Runs \ { r } : cap_pc[o] = "idle" )
        => stage = cap_hist[r].before

\* C13: a callback whose decoding fails stores nothing and does not end the
\* run; the entry's pass is completed, its revert included, and the later
\* entries are captured.
C13_DecodeFailureContained ==
    /\ [][ \A r \in Runs :
              cap_hist'[r].dropped # cap_hist[r].dropped =>
                 cap_buffers' = cap_buffers /\ cap_pc' = cap_pc ]_vars
    /\ [] ( \A r \in Runs : \A i \in cap_hist[r].dropped :
              /\ Passed(r, i) =>
                   PassOf(r, i) = IF FramesToWait(capture_types[i]) > 0 THEN FullPass
                                  ELSE BarePass
              /\ cap_pc[r] = "done" =>
                   \A j \in (i + 1)..Len(capture_types) :
                       PassOf(r, j) \in { FullPass, BarePass } )

\* The decoding failed for the first of two entries, one that hides prims,
\* and the second entry's image was stored.
C13_Witness ==
    \E r \in Runs :
        /\ cap_pc[r] = "done" /\ Len(capture_types) = 2
        /\ Hidden(capture_types[1]) # { }
        /\ 1 \in cap_hist[r].dropped /\ 2 \in cap_hist[r].stored
        /\ capture_types[2].control_name \in DOMAIN cap_buffers
        /\ capture_types[1].control_name \notin DOMAIN cap_buffers

InvalidHideMe(entry) == entry.visibility = "hideme" /\ ~ IsValid(entry.asset_path)

C15_OnlyThisRun ==
    \A r \in Runs :
        ( cap_pc[r] = "done" /\ \A o \in Runs \ { r } : o \in cap_hist[r].after )
        => DOMAIN cap_buffers \subseteq
              { capture_types[i].control_name : i \in cap_hist[r].stored }

-----------------------------------------------------------------------------
(* Claims about load_workflow and the merge *)

\* C16: after a load no two entries of the specification have the same name
\* and no two entries are bound to the same control id.
C16_UniqueSpecs ==
    \A i, j \in 1..Len(comfy_parameters) :
        i # j =>
            /\ comfy_parameters[i].name # comfy_parameters[j].name
            /\ comfy_parameters[i].control_id # "" =>
                  comfy_parameters[i].control_id # comfy_parameters[j].control_id

\* The nodes of the loaded file whose title matches entry i.
MatchingNodes(i) ==
    { n \in 1..Len(workflow.nodes) :
        IsInfix(workflow.nodes[n].title, ReadParameters(workflow)[i].control_name) }

\* C17: after a load every entry that some node title matches is bound to
\* the first matching node in file order.
C17_FirstMatchBinds ==
    \A i \in 1..Len(comfy_parameters) :
        MatchingNodes(i) # { } =>
            comfy_parameters[i].control_id =
                workflow.nodes[CHOOSE n \in MatchingNodes(i) :
                                  \A m \in MatchingNodes(i) : n <= m].key

\* The entries of the specification that no node was bound to.
Unbound == { i \in 1..Len(comfy_parameters) : comfy_parameters[i].control_id = "" }

\* Some bound image parameter has no buffer under its control name.
MissingBuffer ==
    \E i \in 1..Len(comfy_parameters) :
        /\ comfy_parameters[i].type = "image" /\ comfy_parameters[i].control_id # ""
        /\ comfy_parameters[i].control_name \notin DOMAIN viewport_buffers

\* C18: an entry that no node matches stays in the specification and in the
\* parameter store, no slot of the workflow or of a job is written for it,
\* and a generate() call with it does not fail in the merge or the screening.
C18_UnboundSkipped ==
    /\ [] ( /\ Len(comfy_parameters) = Len(ReadParameters(workflow))
            /\ \A i \in Unbound : comfy_parameters[i].name \in DOMAIN parameters
            /\ DOMAIN comfy_json = DOMAIN LoadedJson(workflow, comfy_parameters)
            /\ \A c \in InFlight :
                  DOMAIN frame[c].request_data = DOMAIN LoadedJson(workflow, comfy_parameters) )
    /\ [][ (Unbound # { } /\ ~ busy /\ ~ MissingBuffer /\ last' # last) =>
              last'.exc = "none" ]_vars

\* With an unbound entry in the specification a call has returned an image.
C18_Witness ==
    /\ Unbound # { }
    /\ last.ret.kind = "pixels" /\ last.n_post = 1 /\ last.exc = "none"

\* C19: a generate() call made while a bound image parameter has no buffer
\* under its control name fails in the merge: it submits no job and returns
\* None.
C19_MissingBufferFails ==
    [][ (~ busy /\ MissingBuffer) =>
          /\ pc' = pc
          /\ last' # last =>
                /\ last'.exc = "KeyError" /\ last'.ret = RetNone
                /\ last'.guard = "passed" /\ NoRequests(last') ]_vars

\* A call has failed in the merge for want of a buffer.
C19_Witness ==
    /\ last.exc = "KeyError" /\ last.guard = "passed" /\ last.ret = RetNone
    /\ MissingBuffer

\* C20: generate() leaves the loaded workflow as it was loaded.
C20_TemplateUnchanged ==
    comfy_json = LoadedJson(workflow, comfy_parameters)

\* How often a path stands on the ordered list of render variables.
TimesListed(path) == Cardinality({ k \in 1..Len(render_vars) : render_vars[k] = path })

-----------------------------------------------------------------------------
(* Claims about requests that arrive while another is served *)

\* The pass of run r over its entry has hidden prims and has not yet set
\* them back.
MutationInEffect(r) ==
    /\ cap_pc[r] \in { "wait_before", "schedule", "await", "revert" }
    /\ Hidden(capture_types[cap_i[r]]) # { }

\* C32: when a second request starts a capture run while the first run is
\* suspended, the visibility mutations of two passes are never in effect at
\* the same time.
C32_NoOverlappingPasses ==
    Cardinality({ r \in Runs : MutationInEffect(r) }) <= 1

-----------------------------------------------------------------------------
(* Claims about the parameter store *)

\* A step of a generate() call.
GenerateStep == pc' # pc \/ last' # last \/ frame' # frame

\* C21: no step of a generate() call changes the parameter store or the
\* buffer map of the model: the overrides and the buffers are merged into a
\* copy of the store.
C21_StoreUnchanged ==
    [][ GenerateStep => parameters' = parameters /\ viewport_buffers' = viewport_buffers ]_vars

\* A job is in flight whose prompt slot holds an override and whose image
\* slot holds the buffer, and the store holds its defaults.
C21_Witness ==
    \E c \in Callers :
        /\ pc[c] = "poll"
        /\ frame[c].request_data["6"] = Str(TextBad)
        /\ frame[c].request_data["10"] = B64("rgb")
        /\ parameters = InitParameters(comfy_parameters)
        /\ parameters["prompt"] = Str(TextOk)

\* The store holds the names of the specification, each with the default
\* value of an entry of that name, and nothing else.
AtDefaults ==
    /\ DOMAIN parameters = SpecNames(comfy_parameters)
    /\ \A n \in DOMAIN parameters :
          \E i \in 1..Len(comfy_parameters) :
              comfy_parameters[i].name = n /\ parameters[n] = comfy_parameters[i].default_value

\* C22: a load and a reset_parameters(), after whatever set_parameters calls,
\* leave the store with exactly the names of the loaded specification, each
\* at its default value; a name that was set and is not in the specification
\* is gone.
C22_ResetToDefaults ==
    [][ (ResetParameters \/ LoadWorkflow(workflow')) => AtDefaults' ]_vars

\* The last load or reset found a name outside the specification in the
\* store, and the store is at its defaults.
C22_Witness ==
    cleared.by = "load" /\ AtDefaults /\ DOMAIN parameters \cap cleared.names = { }

\* C23: reset_parameters() is idempotent: after a reset_parameters(), one
\* more leaves the store as it is.
C23_ResetIdempotent ==
    [][ ResetParameters => ResetStore(parameters', comfy_parameters') = parameters' ]_vars

\* A reset_parameters() has taken a name off the store, and the store is
\* what a reset leaves.
C23_Witness ==
    /\ cleared.by = "reset" /\ DOMAIN parameters \cap cleared.names = { }
    /\ parameters = ResetStore(parameters, comfy_parameters)

\* C25: a load under a name that has no workflow file raises an error and
\* leaves the loaded workflow, the specification with its bindings and the
\* parameter store as they were.
C25_MissingFileNoChange ==
    [][ LoadWorkflow(NoFile) =>
          /\ load_exc' # "none"
          /\ UNCHANGED << workflow, comfy_json, comfy_parameters, parameters, viewport_buffers >> ]_vars

\* A load has failed, and the workflow with the float parameter is loaded
\* with a value that is not its default.
C25_Witness ==
    /\ load_exc = "ValueError" /\ workflow = FloatFile
    /\ comfy_parameters = LoadedParameters(FloatFile)
    /\ parameters["cfg"] = Num(2)

\* No node title of the file is annotated, and the file has no .spec.
NothingToDerive(file) ==
    /\ file.spec = << >>
    /\ \A n \in 1..Len(file.nodes) : file.nodes[n].title[1] # "CAVA"

\* C26: a load of a workflow with no .spec file and no annotated node title
\* ends with an error, not with an empty specification.
C26_NoEmptyDerivation ==
    NothingToDerive(workflow) => (load_exc # "none" \/ comfy_parameters # << >>)

-----------------------------------------------------------------------------
(* Claims about the screening *)

\* Every stored value of a parameter of type string is a text the screen
\* accepts.
TextValuesSafe ==
    \A i \in 1..Len(comfy_parameters) :
        comfy_parameters[i].type = "string" =>
            /\ IsStr(parameters[comfy_parameters[i].name])
            /\ IsSafe(parameters[comfy_parameters[i].name].str)

\* C27: only the values of the text parameters are screened: a generate()
\* call made while every text value is safe and every bound image parameter
\* has its buffer reaches the submission of the job, whatever float, int or
\* image parameters the workflow has besides.
C27_OnlyTextsScreened ==
    [][ (~ busy /\ TextValuesSafe /\ ~ MissingBuffer /\ GenerateStep) =>
           \E c \in Callers : pc'[c] = "submit" ]_vars

-----------------------------------------------------------------------------
(* Claims about _is_safe *)

Punctuation == { "\"", "'", ",", "." }

\* The text with its quotes, commas and periods taken out.
PunctuationRemoved(text) == SelectSeq(text, LAMBDA ch : ch \notin Punctuation)

\* The text with a space in the place of each quote, comma and period.
PunctuationSpaced(text) ==
    [ i \in 1..Len(text) |-> IF text[i] \in Punctuation THEN " " ELSE text[i] ]

\* Some disallowed term stands in the text between two of the character q.
Surrounded(text, q) ==
    \E w \in CensorWords : \E i \in 1..Len(text) :
        /\ i + Len(w) + 1 <= Len(text)
        /\ SubSeq(text, i, i + Len(w) + 1) = << q >> \o w \o << q >>

\* C29 as stated: is_safe(text) is false exactly when the text or the text
\* with its quotes, commas and periods removed matches a disallowed term.
C29_RawOrStripped ==
    screen.at = "done" =>
        (screen.safe <=> ~ (ContainsProfanity(screen.text)
                            \/ ContainsProfanity(PunctuationRemoved(screen.text))))

\* C29 amended: is_safe(text) is false exactly when the text or the text
\* with a space in the place of each quote, comma and period matches a
\* disallowed term, so that a text of which neither form matches is
\* accepted; and a term between two quotes or two commas is rejected.
C29_RawOrSpaced ==
    screen.at = "done" =>
        /\ screen.safe <=> ~ (ContainsProfanity(screen.text)
                              \/ ContainsProfanity(PunctuationSpaced(screen.text)))
        /\ \A q \in { "\"", "'", "," } : Surrounded(screen.text, q) => ~ screen.safe

\* The term between two double quotes was rejected.
C29_Witness ==
    /\ screen.at = "done"
    /\ screen.text = << "\"" >> \o TextBad \o << "\"" >>
    /\ ~ screen.safe

-----------------------------------------------------------------------------
(* Claims about the depth decoding *)

\* Every sample of the buffer is at or beyond 3.402e38 in magnitude.
AllSentinel ==
    \A i \in 1..Len(decode.samples) :
        LET x == decode.samples[i]
        IN  \/ x.kind = "inf"
            \/ x.kind = "big" /\ (x.v >= InfThreshold \/ x.v <= 0 - InfThreshold)

AllWhite ==
    /\ decode.at = "done"
    /\ Len(decode.im.pixels) = Len(decode.samples)
    /\ \A i \in 1..Len(decode.im.pixels) : decode.im.pixels[i] = 255

\* C30: the decoding of a depth buffer whose every sample is at the no-data
\* sentinel does not fail and gives an image whose every pixel is 255.
C30_AllSentinelWhite ==
    (decode.at \notin { "idle", "call" } /\ AllSentinel) => AllWhite

\* The same for the buffers of two samples or more.
SentinelWhiteBeyondOneSample ==
    (decode.at \notin { "idle", "call" } /\ AllSentinel /\ Len(decode.samples) > 1) => AllWhite

\* C37: the prompt a task submits is the one the store held when the
\* handler of the task's event returned, whatever events came later.
C37_PromptsOfTheEvent ==
    \A r \in Runs :
        (tasks[r].at = "called" /\ pc["setup"] = "submit") =>
            frame["setup"].request_data[PromptParam.control_id] = tasks[r].handled["prompt"]

\* The event is null or its payload lacks a prompt key.
Malformed(event) ==
    event.null \/ \E i \in 1..Len(prompt_names) : prompt_names[i] \notin DOMAIN event.payload

\* The store holds the same under name n, or nothing under it, as before.
SameUnder(n) ==
    /\ (n \in DOMAIN parameters) = (n \in DOMAIN parameters')
    /\ n \in DOMAIN parameters => parameters'[n] = parameters[n]

\* C38: the handling of an event that is null or lacks a prompt key changes
\* no parameter and starts no capture and no generation, then or later; the
\* handling of an accepted event leaves the store as it was under every
\* prompt whose value in the payload is empty.
C38_MalformedEventIgnored ==
    /\ [][ \A r \in Runs :
              (tasks[r].at = "none" /\ tasks'[r].at # "none") =>
                  IF Malformed(tasks'[r].event)
                  THEN /\ parameters' = parameters
                       /\ tasks'[r].at = "ignored"
                       /\ UNCHANGED << busy, pc, frame, cap_pc, stage, viewport_buffers >>
                  ELSE \A n \in DOMAIN tasks'[r].event.payload :
                          tasks'[r].event.payload[n] = Str(<< >>) => SameUnder(n)
         ]_vars
    /\ [][ \A r \in Runs : tasks[r].at = "ignored" =>
              (tasks'[r] = tasks[r] /\ cap_pc'[r] = "idle") ]_vars

\* An event that lacks a key was dropped with the store as it was, and an
\* event with an empty prompt was accepted with the stored prompt kept.
C38_Witness ==
    \E r, o \in Runs :
        /\ tasks[r].at = "ignored" /\ ~ tasks[r].event.null
        /\ tasks[r].handled = InitParameters(DefaultWorkflow)
        /\ tasks[o].at = "capture"
        /\ tasks[o].event.payload["prompt"] = Str(<< >>)
        /\ tasks[o].handled["prompt"] = Str(TextOk)
        /\ tasks[o].handled["style"] = Str(TextOk)

-----------------------------------------------------------------------------
(* Claims about a batch *)

\* The earlier items of the batch than item r.
Before(r) ==
    { batch_items[j] : j \in { j \in 1..Len(batch_items) :
                                 \E i \in (j + 1)..Len(batch_items) : batch_items[i] = r } }

\* C39: the items of a batch are processed one at a time in list order: an
\* item does nothing (its .json file, its prompts, its capture, its call of
\* generate()) before every earlier item has ended, with generate() returned
\* or with a failure; and an item that failed, with an empty result from
\* generate() or otherwise, leaves the next item able to begin.
C39_BatchInOrder ==
    \A r \in Runs :
        /\ (tasks[r].at \notin { "none", "queued" } \/ cap_pc[r] # "idle") =>
               \A o \in Before(r) :
                   /\ tasks[o].at \in { "saved", "failed" }
                   /\ cap_pc[o] \in { "idle", "done", "failed" }
                   /\ pc["setup"] = "idle" \/ tasks[r].at = "called"
        /\ (tasks[r].at = "queued" /\ \A o \in Before(r) : tasks[o].at \in { "saved", "failed" }) =>
               ENABLED BatchItemBegin(r, TRUE)

\* The first item failed on an empty result of generate() and the second
\* item has been saved.
C39_Witness ==
    /\ tasks["first"].at = "failed"
    /\ cap_pc["first"] = "done"
    /\ tasks["second"].at = "saved"

-----------------------------------------------------------------------------
(* Claims about the windows *)

\* C40: when a window that the extension referred to was closed, and the
\* window was shown again before the update that resumes the destroy task of
\* the close, the update does not destroy the new window.
C40_NewWindowSurvives ==
    [][ \A k \in WindowKinds :
          \A t \in widget[k].pending :
             ( /\ t.closed = t.current
               /\ widget[k].of # None
               /\ widget[k].of \notin { u.closed : u \in widget[k].pending }
               /\ widget'[k].pending = { } ) =>
                 widget[k].of \notin widget'[k].destroyed
      ]_vars

-----------------------------------------------------------------------------
(* Claims about the report of a result *)

\* C34: the transfer messages that carry the placeholder of a rejection by
\* the safety screen have status "success".
C34_RejectionIsSuccess ==
    ("of" \in DOMAIN send /\ send.of.screen = "unsafe" /\ send.of.ret = RetPlaceholder) =>
        \A k \in 1..Len(send.messages) : send.messages[k].status = "success"

-----------------------------------------------------------------------------
(* Claims about the transfer messages *)

\* bytes.fromhex(data)
RECURSIVE FromHex(_)
FromHex(data) ==
    IF Len(data) < 2 THEN << >>
    ELSE LET value(ch) == (CHOOSE d \in 1..16 : HexDigits[d] = ch) - 1
         IN  << 16 * value(data[1]) + value(data[2]) >> \o FromHex(SubSeq(data, 3, Len(data)))

\* The data of the messages, decoded and put together in the order of dispatch.
RECURSIVE Reassembled(_)
Reassembled(messages) ==
    IF messages = << >> THEN << >>
    ELSE FromHex(Head(messages).data) \o Reassembled(Tail(messages))

\* The messages dispatched so far carry part = 0, 1, ... in that order, and
\* the same total_parts, width and height.
InPartOrder ==
    \A k \in 1..Len(send.messages) :
        /\ send.messages[k].part = k - 1
        /\ send.messages[k].total_parts = send.messages[1].total_parts
        /\ send.messages[k].width = send.img.width
        /\ send.messages[k].height = send.img.height

\* The call has ended and its messages give back the bytes of the image.
Delivered ==
    /\ send.at = "done"
    /\ \A k \in 1..Len(send.messages) : send.messages[k].total_parts = Len(send.messages)
    /\ Reassembled(send.messages) = send.img.bytes

\* C28 as stated: for every image and every message size limit the messages
\* carry part = 0 .. total_parts - 1 in order, with the same total_parts,
\* width and height, and their data gives back the RGBA bytes of the image.
C28_ChunksReassemble ==
    send.at \notin { "idle", "call", "loop" } => (InPartOrder /\ Delivered)

\* The limit leaves room for one byte of data in a message.
RoomForData == send.max_message_size >= send.metadata_size + 2

\* C28 amended: the same, for every message size limit that exceeds the
\* size of the metadata by 2 or more.
C28_ChunksReassembleWithRoom ==
    (send.at # "idle" /\ RoomForData) =>
        /\ InPartOrder
        /\ send.at \notin { "call", "loop" } => Delivered

\* An image went out in three messages or more, the last one shorter than
\* the first.
C28_Witness ==
    /\ send.at = "done" /\ RoomForData /\ Len(send.messages) >= 3
    /\ Len(send.messages[Len(send.messages)].data) < Len(send.messages[1].data)
    /\ Reassembled(send.messages) = send.img.bytes

-----------------------------------------------------------------------------
(* Claims about the path of a captured buffer into a job *)

\* The image parameters of the specification that are bound to a node.
BoundImages ==
    { i \in 1..Len(comfy_parameters) :
        comfy_parameters[i].type = "image" /\ comfy_parameters[i].control_id # "" }

\* What a callback of the capture stores for a plan entry.
PayloadOf(entry) == StoreCaptured(EmptyDict, entry, TRUE)[entry.control_name]

\* C24: the slot of a bound image parameter in a submitted job holds the
\* payload that the model's buffer map had under the parameter's control
\* name when the call began; the buffer map is the one the capture had at the
\* last hand-over, and the payload is the one a callback of the capture
\* stored under that control name.
C24_BufferIntoSlot ==
    /\ [][ \A c \in Callers :
              (pc[c] = "idle" /\ pc'[c] = "submit") =>
                 \A i \in BoundImages :
                     frame'[c].request_data[comfy_parameters[i].control_id]
                        = viewport_buffers[comfy_parameters[i].control_name] ]_vars
    /\ [][ viewport_buffers' # viewport_buffers => viewport_buffers' = cap_buffers ]_vars
    /\ [] ( \A c \in InFlight : \A i \in BoundImages :
               \E k \in 1..Len(capture_types) :
                   /\ capture_types[k].control_name = comfy_parameters[i].control_name
                   /\ frame[c].request_data[comfy_parameters[i].control_id]
                         = PayloadOf(capture_types[k]) )

\* A job is being polled whose image slot holds the payload of the captured
\* colour buffer, after a run of the capture that stored it.
C24_Witness ==
    /\ \E c \in Callers : pc[c] = "poll" /\ frame[c].request_data["10"] = B64("LdrColor")
    /\ \E r \in Runs : cap_pc[r] = "done" /\ 1 \in cap_hist[r].stored

=============================================================================
